---- MODULE Spec2Model ----
(***************************************************************************)
(* A model of the CollectiveMind synthetic dataset generator: the shared   *)
(* registry (ContextManager) and the builders that read and fill it.       *)
(* Random draws of the generators are nondeterministic choices.            *)
(***************************************************************************)
EXTENDS Integers, Sequences, FiniteSets, TLC

(***************************************************************************)
(* Bounds of the model.                                                    *)
(***************************************************************************)
MaxEmployees == 5
MaxManagers == 3
MaxTeams == 3

(***************************************************************************)
(* Values.                                                                 *)
(***************************************************************************)
\* Python's None for an id (manager_id: Optional[str] = None).
NoneId == <<>>

\* Python's None where a team name is expected (random_choice of an empty list).
NoneTeam == "<None>"

Range(s) == {s[k] : k \in 1..Len(s)}

Min2(a, b) == IF a < b THEN a ELSE b

RECURSIVE Digits(_)
\* The decimal digits of n >= 0, most significant first.
Digits(n) == IF n < 10 THEN <<n>> ELSE Digits(n \div 10) \o <<n % 10>>

RECURSIVE Zeros(_)
Zeros(k) == IF k <= 0 THEN <<>> ELSE <<0>> \o Zeros(k - 1)

\* format(n, "0{w}d"): at least w digits, padded with zeros on the left.
ZeroPad(n, w) == Zeros(w - Len(Digits(n))) \o Digits(n)

\* f"{prefix}{n:0{w}d}"
FormatId(prefix, n, w) == <<prefix>> \o ZeroPad(n, w)

(***************************************************************************)
(* Configuration (config/settings.py).                                     *)
(***************************************************************************)
DefaultTeams == <<"Marketing", "Product", "Engineering", "Finance", "HR">>

TeamNames == Range(DefaultTeams)

\* GenerationConfig.demo_personas
demo_personas ==
  << [name |-> "Maya Chen", role |-> "Product Manager", team |-> "Product"],
     [name |-> "Rahul Sharma", role |-> "Marketing Analyst", team |-> "Marketing"],
     [name |-> "Priya Patel", role |-> "New Hire", team |-> "Product"] >>

(***************************************************************************)
(* Role titles.  A role title is the template title plus the "Senior "     *)
(* prefix that a promotion may put in front of it.                         *)
(***************************************************************************)
role_templates ==
  [t \in TeamNames |->
     CASE t = "Marketing" ->
            {"Marketing Manager", "Marketing Analyst", "Content Strategist",
             "Digital Marketing Specialist", "Brand Manager", "Marketing Coordinator",
             "Growth Marketing Manager", "Marketing Director"}
       [] t = "Product" ->
            {"Product Manager", "Senior Product Manager", "Product Analyst",
             "Product Owner", "UX Designer", "Product Marketing Manager",
             "Product Director", "Associate Product Manager"}
       [] t = "Engineering" ->
            {"Software Engineer", "Senior Software Engineer", "DevOps Engineer",
             "Frontend Developer", "Backend Developer", "Full Stack Developer",
             "Engineering Manager", "Principal Engineer", "Tech Lead"}
       [] t = "Finance" ->
            {"Financial Analyst", "Senior Financial Analyst", "Finance Manager",
             "Controller", "Finance Director", "Budget Analyst", "Accounting Manager"}
       [] t = "HR" ->
            {"HR Manager", "HR Business Partner", "Talent Acquisition Specialist",
             "HR Coordinator", "People Operations Manager", "HR Director",
             "Recruiter", "HR Analyst"}]

\* The titles whose lower-case form contains 'manager' or 'director'.
ManagerDirectorTitles ==
  {"Marketing Manager", "Brand Manager", "Growth Marketing Manager", "Marketing Director",
   "Product Manager", "Senior Product Manager", "Product Marketing Manager",
   "Product Director", "Associate Product Manager",
   "Engineering Manager",
   "Finance Manager", "Finance Director", "Accounting Manager",
   "HR Manager", "People Operations Manager", "HR Director"}

\* The titles whose lower-case form contains 'lead' or 'principal'.
LeadPrincipalTitles == {"Principal Engineer", "Tech Lead"}

\* The titles that contain "Senior".
SeniorTitles == {"Senior Product Manager", "Senior Software Engineer",
                 "Senior Financial Analyst"}

\* tenure_ranges: a generated person's tenure lies between 1 and 72 months.
TenureRange == 1..72

\* A demo persona's tenure: 1..3 months for a new hire, else 12..48.
DemoTenureRange(role) == IF role = "New Hire" THEN 1..3 ELSE 12..48

(***************************************************************************)
(* The random outcomes a specification explores.  Every draw of the code   *)
(* is a nondeterministic choice; a record of this shape names the values   *)
(* the choice ranges over, so that a specification about one builder can   *)
(* keep the draws of the other builders few.                               *)
(***************************************************************************)
\* The draws of the Organization Builder, explored widely.
WideOrgDraws ==
  [titles |-> {"Marketing Manager", "Marketing Analyst",
               "Senior Product Manager", "Product Analyst",
               "Tech Lead", "Software Engineer",
               "Finance Manager", "Financial Analyst",
               "HR Manager", "Recruiter"},
   tenures |-> {3, 24},
   demo_tenures |-> {3, 12, 24}]

\* One outcome per draw of the Organization Builder.
NarrowOrgDraws ==
  [titles |-> {"Marketing Analyst", "Product Analyst", "Software Engineer",
               "Financial Analyst", "Recruiter"},
   tenures |-> {3},
   demo_tenures |-> {3, 12}]

\* self.random_choice(self.role_templates[team])
RoleChoices(d, team) == role_templates[team] \cap d.titles

RoleTitle(title) == [senior_prefix |-> FALSE, title |-> title]

\* any(keyword in role_title.lower() for keyword in
\*     ['manager', 'director', 'lead', 'principal'])
is_senior_role(role_title) ==
  role_title.title \in ManagerDirectorTitles \cup LeadPrincipalTitles

\* 'manager' in role_title.lower() or 'director' in role_title.lower()
IsManagerTitle(role_title) == role_title.title \in ManagerDirectorTitles

\* "Senior" in role_title
ContainsSenior(role_title) ==
  role_title.senior_prefix \/ role_title.title \in SeniorTitles


(***************************************************************************)
(* Document templates (generators/documents.py, generators/context.py).    *)
(* A phrase is the sequence of its words; a tag is a sequence of words     *)
(* too, standing for the words joined by "_".                              *)
(***************************************************************************)
\* DocumentGenerator.common_topics
common_topics ==
  <<<<"Customer", "Churn">>, <<"Onboarding", "Experience">>,
    <<"Pricing", "Strategy">>, <<"User", "Engagement">>,
    <<"Performance", "Metrics">>, <<"Quarterly", "Planning">>,
    <<"System", "Performance">>, <<"Data", "Analytics">>,
    <<"Mobile", "App">>, <<"API", "Integration">>,
    <<"Security", "Framework">>, <<"Cloud", "Migration">>,
    <<"Feature", "Rollout">>, <<"Market", "Expansion">>,
    <<"Customer", "Feedback">>, <<"Product", "Roadmap">>>>

\* str.lower() on the words of the topics and on the team names.
Lower ==
  ("API" :> "api") @@
  ("Analytics" :> "analytics") @@
  ("App" :> "app") @@
  ("Churn" :> "churn") @@
  ("Cloud" :> "cloud") @@
  ("Customer" :> "customer") @@
  ("Data" :> "data") @@
  ("Engagement" :> "engagement") @@
  ("Expansion" :> "expansion") @@
  ("Experience" :> "experience") @@
  ("Feature" :> "feature") @@
  ("Feedback" :> "feedback") @@
  ("Framework" :> "framework") @@
  ("Integration" :> "integration") @@
  ("Market" :> "market") @@
  ("Metrics" :> "metrics") @@
  ("Migration" :> "migration") @@
  ("Mobile" :> "mobile") @@
  ("Onboarding" :> "onboarding") @@
  ("Performance" :> "performance") @@
  ("Planning" :> "planning") @@
  ("Pricing" :> "pricing") @@
  ("Product" :> "product") @@
  ("Quarterly" :> "quarterly") @@
  ("Roadmap" :> "roadmap") @@
  ("Rollout" :> "rollout") @@
  ("Security" :> "security") @@
  ("Strategy" :> "strategy") @@
  ("System" :> "system") @@
  ("User" :> "user") @@
  ("Marketing" :> "marketing") @@
  ("Engineering" :> "engineering") @@
  ("Finance" :> "finance") @@
  ("HR" :> "hr")

\* DocumentGenerator.document_templates: team -> template name -> content_themes
document_templates ==
  [t \in TeamNames |->
    CASE t = "Marketing" ->
      ("Campaign Report" :>
        <<<<"campaign", "performance">>, <<"conversion", "rates">>,
          <<"audience", "engagement">>, <<"ROI", "analysis">>,
          <<"channel", "effectiveness">>,
          <<"optimization", "recommendations">>>>) @@
      ("Competitive Analysis" :>
        <<<<"competitor", "positioning">>, <<"market", "trends">>,
          <<"feature", "comparison">>, <<"pricing", "analysis">>,
          <<"market", "opportunities">>, <<"strategic", "recommendations">>>>) @@
      ("Customer Insights" :>
        <<<<"customer", "segmentation">>, <<"behavioral", "analysis">>,
          <<"churn", "patterns">>, <<"retention", "strategies">>,
          <<"customer", "satisfaction">>, <<"feedback", "analysis">>>>)
      [] t = "Product" ->
      ("PRD" :>
        <<<<"user", "stories">>, <<"acceptance", "criteria">>,
          <<"success", "metrics">>, <<"user", "experience">>,
          <<"feature", "prioritization">>, <<"market", "research">>>>) @@
      ("Decision Log" :>
        <<<<"decision", "rationale">>, <<"alternatives", "considered">>,
          <<"stakeholder", "input">>, <<"success", "criteria">>,
          <<"implementation", "timeline">>, <<"risk", "assessment">>>>) @@
      ("User Research" :>
        <<<<"user", "feedback">>, <<"behavioral", "patterns">>,
          <<"pain", "points">>, <<"feature", "adoption">>,
          <<"user", "journey">>, <<"recommendations">>>>)
      [] t = "Engineering" ->
      ("RFC" :>
        <<<<"system", "architecture">>, <<"API", "design">>,
          <<"database", "schema">>, <<"performance", "optimization">>,
          <<"scalability">>, <<"security">>, <<"microservices">>,
          <<"deployment", "strategy">>>>) @@
      ("Architecture" :>
        <<<<"system", "components">>, <<"data", "flow">>,
          <<"service", "interactions">>, <<"load", "balancing">>,
          <<"caching", "strategy">>, <<"monitoring">>>>) @@
      ("Postmortem" :>
        <<<<"incident", "timeline">>, <<"root", "cause">>,
          <<"impact", "assessment">>, <<"remediation", "steps">>,
          <<"prevention", "measures">>, <<"lessons", "learned">>>>)
      [] t = "Finance" ->
      ("Quarterly Report" :>
        <<<<"revenue", "analysis">>, <<"cost", "breakdown">>,
          <<"profit", "margins">>, <<"budget", "variance">>,
          <<"financial", "forecasting">>, <<"key", "metrics">>>>) @@
      ("Budget Analysis" :>
        <<<<"budget", "allocation">>, <<"cost", "optimization">>,
          <<"expense", "tracking">>, <<"ROI", "analysis">>,
          <<"financial", "planning">>, <<"resource", "allocation">>>>) @@
      ("Risk Assessment" :>
        <<<<"risk", "identification">>, <<"impact", "assessment">>,
          <<"mitigation", "strategies">>, <<"compliance", "requirements">>,
          <<"financial", "exposure">>, <<"risk", "monitoring">>>>)
      [] t = "HR" ->
      ("Policy" :>
        <<<<"policy", "guidelines">>, <<"compliance", "requirements">>,
          <<"employee", "rights">>, <<"procedures">>,
          <<"implementation", "timeline">>, <<"training", "requirements">>>>) @@
      ("Onboarding" :>
        <<<<"onboarding", "process">>, <<"team", "introductions">>,
          <<"role", "expectations">>, <<"training", "schedule">>,
          <<"resources">>, <<"first", "week", "activities">>>>) @@
      ("Performance" :>
        <<<<"performance", "metrics">>, <<"goal", "achievement">>,
          <<"skill", "development">>, <<"feedback", "summary">>,
          <<"improvement", "areas">>, <<"career", "development">>>>)]

\* ContextManager._initialize_content_themes: team -> themes
content_themes ==
  [t \in TeamNames |->
    CASE t = "Marketing" ->
        <<<<"customer", "acquisition">>, <<"brand", "awareness">>,
          <<"campaign", "performance">>, <<"conversion", "rates">>,
          <<"market", "research">>, <<"competitive", "analysis">>,
          <<"customer", "segmentation">>, <<"retention">>,
          <<"churn", "analysis">>, <<"pricing", "strategy">>>>
      [] t = "Product" ->
        <<<<"user", "experience">>, <<"feature", "development">>,
          <<"product", "roadmap">>, <<"user", "research">>,
          <<"A/B", "testing">>, <<"product", "metrics">>, <<"onboarding">>,
          <<"user", "feedback">>, <<"feature", "adoption">>,
          <<"product", "strategy">>>>
      [] t = "Engineering" ->
        <<<<"system", "architecture">>, <<"performance", "optimization">>,
          <<"scalability">>, <<"technical", "debt">>, <<"code", "review">>,
          <<"deployment">>, <<"monitoring">>, <<"security">>,
          <<"API", "design">>, <<"infrastructure">>, <<"bug", "fixes">>>>
      [] t = "Finance" ->
        <<<<"revenue", "analysis">>, <<"cost", "optimization">>,
          <<"budget", "planning">>, <<"financial", "forecasting">>,
          <<"risk", "assessment">>, <<"compliance">>,
          <<"quarterly", "results">>, <<"expense", "tracking">>,
          <<"ROI", "analysis">>>>
      [] t = "HR" ->
        <<<<"employee", "engagement">>, <<"talent", "acquisition">>,
          <<"performance", "management">>, <<"training", "programs">>,
          <<"company", "culture">>, <<"policy", "updates">>,
          <<"compensation">>, <<"benefits">>, <<"team", "building">>,
          <<"onboarding">>>>]

\* DocumentGenerator.languages (the language codes)
languages == <<"es", "hi", "fr", "de", "pt">>

(***************************************************************************)
(* State.                                                                  *)
(***************************************************************************)
VARIABLES
  config,          \* the GenerationConfig the run was started with
  pc,              \* the position of the run in the pipeline
  error,           \* the exception that ended the run, or "none"
  people,          \* OrganizationGenerator: the list of people being built
  managers,        \* _assign_managers: the indexes (in people) of the sampled managers
  ctx_people,      \* ContextManager.people: person_id -> Person
  people_by_team,  \* ContextManager.people_by_team: team -> list of person ids
  ctx_managers,    \* ContextManager.managers: list of person ids
  documents,       \* DocumentGenerator.generate: the list of documents being built
  doc_counter,     \* DocumentGenerator.doc_counter
  doc_team,        \* DocumentGenerator.generate: 0-based index of the team in turn
  doc_i,           \* _generate_team_documents: the loop index within the team
  ctx_documents,   \* ContextManager.documents: doc_id -> Document
  document_tags,   \* ContextManager.document_tags: tag -> set of doc ids
  threads,         \* CommunicationGenerator.generate: threads
  messages,        \* CommunicationGenerator.generate: all_messages
  thread_counter,  \* CommunicationGenerator.thread_counter
  message_counter, \* CommunicationGenerator.message_counter
  comm_type,       \* generate: 0-based index of the channel type in turn
  comm_i,          \* generate: the loop index within the channel type
  duplicate_threads,   \* _generate_duplicate_discussions: duplicate_threads
  duplicate_messages,  \* _generate_duplicate_discussions: duplicate_messages
  dup_i,           \* _generate_duplicate_discussions: topics gone through
  emotional_threads,   \* _generate_emotional_threads: emotional_threads
  emotional_messages,  \* _generate_emotional_threads: emotional_messages
  emo_i,           \* _generate_emotional_threads: the loop index i
  ctx_threads,     \* ContextManager.chat_threads: thread_id -> ChatThread
  topics,          \* KnowledgeGraphGenerator._generate_topics: topics
  topic_counter,   \* KnowledgeGraphGenerator.topic_counter
  edges,           \* KnowledgeGraphGenerator._generate_edges: edges
  edge_counter,    \* KnowledgeGraphGenerator.edge_counter
  generated_topics,    \* KnowledgeGraphGenerator.generated_topics
  ctx_topics,      \* ContextManager.topics: topic_id -> Topic
  validation,      \* ensure_referential_integrity: the ValidationResult
  cross_references,   \* ContextManager.cross_references: entity id -> set of ids
  xref_call,       \* the last call of a registry method: its arguments and what it returned
  config_source,   \* ConfigurationManager: the file at config_path and os.environ
  first_run,       \* what an earlier run with the same configuration produced
  meetings,        \* MeetingGenerator._generate_meetings: meetings
  meeting_counter, \* MeetingGenerator.meeting_counter
  starter_packs,   \* generate_all: the starter packs of _generate_starter_packs
  acls,            \* PermissionGenerator.generate: acls
  user_events,     \* UserEventGenerator.generate: events
  watch_dir,       \* covenant PathwayMonitor: the *.json files of watch_dir
  processed,       \* PathwayMonitor.processed
  pathway_results, \* PathwayMonitor: the results saved to results_dir, in order
  yielded,         \* PathwayMonitor.monitor: the paths of the results it yielded
  pending,         \* PathwayMonitor.monitor: the files of the glob not gone through yet
  poll_round,      \* PathwayMonitor.monitor: the polling rounds started
  monitor_call     \* the last call of process_file: its path and what it returned

ctx_vars == <<ctx_people, people_by_team, ctx_managers>>

org_vars == <<people, managers, ctx_vars>>

doc_vars == <<documents, doc_counter, doc_team, doc_i, ctx_documents, document_tags>>

comm_vars ==
  <<threads, messages, thread_counter, message_counter, comm_type, comm_i,
    duplicate_threads, duplicate_messages, dup_i,
    emotional_threads, emotional_messages, emo_i, ctx_threads>>

kg_vars == <<topics, topic_counter, edges, edge_counter, generated_topics, ctx_topics>>

\* What the builders up to the knowledge graph leave alone.
xref_vars == <<cross_references, xref_call>>

\* What the builders after the knowledge graph produce.
stage_vars == <<meetings, meeting_counter, starter_packs, acls, user_events>>

\* The state of the covenant PathwayMonitor.
monitor_vars ==
  <<watch_dir, processed, pathway_results, yielded, pending, poll_round, monitor_call>>

late_vars == <<validation, xref_vars, config_source, monitor_vars, first_run, stage_vars>>

\* What the Organization Builder leaves alone.
after_org_vars == <<doc_vars, comm_vars, kg_vars>>

\* What the Document Builder leaves alone.
after_doc_vars == <<comm_vars, kg_vars>>

vars == <<config, pc, error, org_vars, doc_vars, comm_vars, kg_vars, late_vars>>

\* models.core.Person (the fields the builders read)
Person(person_id, role_title, team, tenure) ==
  [person_id |-> person_id, role_title |-> role_title, team |-> team,
   tenure_months |-> tenure, manager_id |-> NoneId, previous_teams |-> <<>>]

\* OrganizationConfig with a team list that is a prefix of the default one.
Teams(t) == SubSeq(DefaultTeams, 1, t)

\* The configurations the Organization Builder is explored under.
Configs ==
  [employee_count : 1..MaxEmployees,
   manager_count : 0..MaxManagers,
   teams : {Teams(t) : t \in 1..MaxTeams},
   documents : {0},
   chat_threads : {0},
   knowledge_graph_edges : {0}]

\* ContextManager.__init__: empty registries.
EmptyContext ==
  /\ ctx_people = <<>>
  /\ people_by_team = [t \in TeamNames |-> <<>>]
  /\ ctx_managers = <<>>
  /\ ctx_documents = <<>>
  /\ document_tags = <<>>
  /\ ctx_threads = <<>>
  /\ ctx_topics = <<>>

\* ValidationResult.__init__
NewValidationResult == [is_valid |-> TRUE, errors |-> <<>>, warnings |-> <<>>]

\* What is there besides the builders' lists when a run starts.
\* No cross-reference call was made yet.
NoCall == [op |-> "none", entity_id |-> NoneId, returned |-> {}]

\* No configuration file and an environment without overrides.
NoSource ==
  [path_exists |-> FALSE,
   file |-> [employee_count |-> <<>>, teams |-> <<>>, documents |-> <<>>,
             start_date |-> <<>>, end_date |-> <<>>],
   environ |-> [DATASET_EMPLOYEE_COUNT |-> <<>>, DATASET_DOCUMENT_COUNT |-> <<>>]]

\* No earlier run.
NoRun == [done |-> FALSE, people |-> <<>>, managers |-> <<>>]

\* No call of process_file yet.
NoFileCall == [path |-> "", returned |-> "none"]

\* PathwayMonitor.__init__, with a watch directory that holds no file yet.
InitPathwayMonitor ==
  /\ watch_dir = {}
  /\ processed = {}
  /\ pathway_results = <<>>
  /\ yielded = <<>>
  /\ pending = {}
  /\ poll_round = 0
  /\ monitor_call = NoFileCall

InitLate ==
  /\ validation = NewValidationResult
  /\ cross_references = [entity_id \in {} |-> {}]
  /\ xref_call = NoCall
  /\ InitPathwayMonitor
  /\ first_run = NoRun
  /\ meetings = <<>>
  /\ meeting_counter = 0
  /\ starter_packs = <<>>
  /\ acls = <<>>
  /\ user_events = <<>>

\* The generators as constructed.
InitGenerators ==
  /\ doc_counter = 0
  /\ doc_team = 0
  /\ doc_i = 0
  /\ thread_counter = 0
  /\ message_counter = 0
  /\ comm_type = 0
  /\ comm_i = 0
  /\ dup_i = 0
  /\ emo_i = 0
  /\ topic_counter = 0
  /\ edge_counter = 0
  /\ generated_topics = <<>>

\* The context and the generators as constructed.
InitRest ==
  /\ error = "none"
  /\ InitLate
  /\ InitGenerators
  /\ people = <<>>
  /\ managers = {}
  /\ documents = <<>>
  /\ threads = <<>>
  /\ messages = <<>>
  /\ duplicate_threads = <<>>
  /\ duplicate_messages = <<>>
  /\ emotional_threads = <<>>
  /\ emotional_messages = <<>>
  /\ topics = <<>>
  /\ edges = <<>>
  /\ EmptyContext

\* The context and the generators as constructed, for a configuration of cfgs.
InitObjects(cfgs) ==
  /\ config \in cfgs
  /\ config_source = NoSource
  /\ InitRest

\* The state after the generators are constructed, for a configuration of cfgs.
InitWith(cfgs) ==
  /\ pc = "start"
  /\ InitObjects(cfgs)

Init == InitWith(Configs)

(***************************************************************************)
(* Organization Builder (generators/organization.py).                      *)
(***************************************************************************)
\* person_id = f"P_{index+1:03d}" for the 0-based index of the person.
PersonId(index) == FormatId("P_", index + 1, 3)

\* _create_demo_personas: one Person per configured demo persona.
CreateDemoPersonasFrom(d) ==
  /\ pc = "start"
  /\ \E tenure \in [DOMAIN demo_personas -> d.demo_tenures] :
       /\ \A i \in DOMAIN demo_personas :
            tenure[i] \in DemoTenureRange(demo_personas[i].role)
       /\ people' = [i \in DOMAIN demo_personas |->
                       Person(PersonId(i - 1), RoleTitle(demo_personas[i].role),
                              demo_personas[i].team, tenure[i])]
  /\ pc' = "generate_people"
  /\ UNCHANGED <<config, late_vars, error, managers, ctx_vars, after_org_vars>>

\* _generate_people: remaining_count = employee_count - len(demo_people)
remaining_count == config.employee_count - Len(demo_personas)

\* team = teams[index % len(teams)]
TeamOfIndex(index) == config.teams[(index % Len(config.teams)) + 1]

\* _generate_single_person(i + len(demo_people), used_names): one iteration of
\* the loop "for i in range(remaining_count)".
GenerateSinglePersonFrom(d) ==
  /\ pc = "generate_people"
  /\ Len(people) - Len(demo_personas) < remaining_count
  /\ LET index == Len(people)
         team == TeamOfIndex(index)
     IN \E title \in RoleChoices(d, team), tenure \in d.tenures \cap TenureRange :
          people' = Append(people, Person(PersonId(index), RoleTitle(title), team, tenure))
  /\ UNCHANGED <<config, late_vars, pc, error, managers, ctx_vars, after_org_vars>>

\* _assign_managers: the potential managers (senior role or tenure >= 24).
potential_managers(ppl) ==
  {i \in DOMAIN ppl : is_senior_role(ppl[i].role_title) \/ ppl[i].tenure_months >= 24}

\* "person in list" for a list of Person dataclasses: equality of all fields.
PersonIn(ppl, i, idxs) == \E j \in idxs : ppl[j] = ppl[i]

\* The promotion of an additional manager: "Senior " is put before the title.
Promote(p) ==
  IF ~ContainsSenior(p.role_title)
  THEN [p EXCEPT !.role_title = [@ EXCEPT !.senior_prefix = TRUE]]
  ELSE p

\* self.random.sample(population, k): the sets of k members (k <= len).
Sample(population, k) == {s \in SUBSET population : Cardinality(s) = k}

NeedsManager_AllPeople(ppl, mgrs, i) == TRUE

\* "if person not in managers": the people that get a manager_id.
NeedsManager(ppl, mgrs, i) == ~PersonIn(ppl, i, mgrs)

ManagerCandidates_Anyone(ppl, mgrs, i) == DOMAIN ppl

\* The managers a person may be given: those of the same team, else any.
ManagerCandidates(ppl, mgrs, i) ==
  LET same_team_managers == {m \in mgrs : ppl[m].team = ppl[i].team}
  IN IF same_team_managers # {} THEN same_team_managers ELSE mgrs

RECURSIVE ManagerChoices(_, _, _)
\* The outcomes of the assignment loop: one candidate drawn for each report.
ManagerChoices(ppl, mgrs, reports) ==
  IF reports = {} THEN {<<>>}
  ELSE LET i == CHOOSE x \in reports : TRUE
       IN {(i :> b) @@ rest : b \in ManagerCandidates(ppl, mgrs, i),
                              rest \in ManagerChoices(ppl, mgrs, reports \ {i})}

AssignManagers ==
  /\ pc = "generate_people"
  /\ ~(Len(people) - Len(demo_personas) < remaining_count)
  /\ LET pot == potential_managers(people)
         mc == config.manager_count
         non_managers == {i \in DOMAIN people : ~PersonIn(people, i, pot)}
         missing == IF Cardinality(pot) < mc THEN mc - Cardinality(pot) ELSE 0
     IN IF missing > Cardinality(non_managers)
        THEN \* random.sample: sample larger than population
             /\ pc' = "crashed" /\ error' = "ValueError"
             /\ UNCHANGED <<people, managers>>
        ELSE \E additional \in Sample(non_managers, missing) :
               LET promoted == [i \in DOMAIN people |->
                                  IF i \in additional THEN Promote(people[i])
                                                      ELSE people[i]]
               IN \E mgrs \in Sample(pot \cup additional, mc) :
                    LET reports == {i \in DOMAIN promoted : NeedsManager(promoted, mgrs, i)}
                    IN IF reports # {} /\ mgrs = {}
                       THEN \* random_choice([]) is None: None.person_id
                            /\ pc' = "crashed" /\ error' = "AttributeError"
                            /\ people' = promoted
                            /\ managers' = mgrs
                       ELSE \E boss \in ManagerChoices(promoted, mgrs, reports) :
                              /\ people' = [i \in DOMAIN promoted |->
                                   IF i \in reports
                                   THEN [promoted[i] EXCEPT
                                           !.manager_id = promoted[boss[i]].person_id]
                                   ELSE promoted[i]]
                              /\ managers' = mgrs
                              /\ pc' = "team_history"
                              /\ error' = error
  /\ UNCHANGED <<config, late_vars, ctx_vars, after_org_vars>>

\* change_count = int(len(people) * 0.25)
change_count(ppl) == Len(ppl) \div 4

\* available_teams = [t for t in teams if t != person.team]
available_teams(person) == {t \in Range(config.teams) : t # person.team}

\* random_choice(available_teams): None when the list is empty.
PreviousTeamChoices(person) ==
  IF available_teams(person) = {} THEN {NoneTeam} ELSE available_teams(person)

\* "if person.tenure_months >= 12": the sampled people that get a previous team.
HistoryEligible(person) == person.tenure_months >= 12

\* _create_team_history
CreateTeamHistory ==
  /\ pc = "team_history"
  /\ \E people_to_change \in Sample(DOMAIN people, change_count(people)) :
       \E previous_team \in [people_to_change -> Range(config.teams) \cup {NoneTeam}] :
         /\ \A i \in people_to_change :
              previous_team[i] \in PreviousTeamChoices(people[i])
         /\ people' = [i \in DOMAIN people |->
                         IF i \in people_to_change /\ HistoryEligible(people[i])
                         THEN [people[i] EXCEPT !.previous_teams = <<previous_team[i]>>]
                         ELSE people[i]]
  /\ pc' = "register_people"
  /\ UNCHANGED <<config, late_vars, error, managers, ctx_vars, after_org_vars>>

(***************************************************************************)
(* Shared registry (generators/context.py).                                *)
(***************************************************************************)
\* dict[key] = value
Put(map, key, value) == (key :> value) @@ map

\* register_entity('person', entity_id, entity): "Track managers".
TracksAsManager(entity) == IsManagerTitle(entity.role_title)

\* register_entity('person', entity_id, entity) on the registry reg.
register_person(reg, entity_id, entity) ==
  [reg EXCEPT
     !.people = Put(@, entity_id, entity),
     !.people_by_team = [@ EXCEPT ![entity.team] = Append(@, entity_id)],
     !.managers = IF TracksAsManager(entity) THEN Append(@, entity_id) ELSE @]

RECURSIVE RegisterPeopleFrom(_, _, _)
\* for person in people: register_entity('person', person.person_id, person)
RegisterPeopleFrom(reg, ppl, k) ==
  IF k > Len(ppl) THEN reg
  ELSE RegisterPeopleFrom(register_person(reg, ppl[k].person_id, ppl[k]), ppl, k + 1)

\* OrganizationGenerator.generate: the registration loop that ends it.
RegisterPeople ==
  /\ pc = "register_people"
  /\ LET reg == RegisterPeopleFrom(
                  [people |-> ctx_people, people_by_team |-> people_by_team,
                   managers |-> ctx_managers], people, 1)
     IN /\ ctx_people' = reg.people
        /\ people_by_team' = reg.people_by_team
        /\ ctx_managers' = reg.managers
  /\ pc' = "org_done"
  /\ UNCHANGED <<config, late_vars, error, people, managers, after_org_vars>>

(***************************************************************************)
(* Document Builder (generators/documents.py).                             *)
(***************************************************************************)
\* random.sample(population, k) seen as the positions it picks: k different
\* positions of a population of n.
IsSample(pos, n, k) ==
  /\ Len(pos) = k
  /\ \A i \in 1..k : pos[i] \in 1..n
  /\ \A i, j \in 1..k : i # j => pos[i] # pos[j]

\* The outcomes of random.sample among the position lists a draw ranges over.
SamplePositions(positions, n, k) == {pos \in positions : IsSample(pos, n, k)}

\* The sampled elements, in the order they were picked.
Pick(population, pos) == [i \in 1..Len(pos) |-> population[pos[i]]]

\* The draws of the Document Builder, explored widely for authorship.
AuthorDocDraws ==
  [topics |-> {<<"Pricing", "Strategy">>},
   templates |-> {"Campaign Report", "PRD", "RFC", "Quarterly Report", "Policy"},
   team_themes |-> {<<"retention">>, <<"onboarding">>, <<"scalability">>,
                    <<"compliance">>, <<"benefits">>},
   authors |-> 1..2,
   coauthors |-> {TRUE, FALSE},
   coauthor_positions |-> {<<1>>, <<2, 1>>},
   tag_positions |-> {<<1, 2, 3, 4, 5>>},
   convert_positions |-> {<<1, 2, 3, 4, 5>>},
   languages |-> {"es"},
   related_positions |-> {<<1>>, <<1, 2>>},
   visibilities |-> {"internal"},
   confidentialities |-> {"medium"}]

\* The draws of the Document Builder, explored widely for tags and relations.
TagDocDraws ==
  [topics |-> {<<"Pricing", "Strategy">>, <<"Performance", "Metrics">>},
   templates |-> {"Campaign Report", "PRD", "RFC", "Quarterly Report", "Policy"},
   team_themes |-> {<<"retention">>, <<"onboarding">>, <<"scalability">>,
                    <<"compliance">>, <<"benefits">>},
   authors |-> {1},
   coauthors |-> {FALSE},
   coauthor_positions |-> {<<1>>},
   tag_positions |-> {<<1, 2, 3, 4, 5>>, <<2, 3, 5, 1, 4>>},
   convert_positions |-> {<<1, 2, 3, 4, 5>>},
   languages |-> {"hi"},
   related_positions |-> {<<1>>, <<1, 2>>, <<3, 1>>},
   visibilities |-> {"internal"},
   confidentialities |-> {"medium"}]

\* models.core.Document (the fields the builders read)
Document(doc_id, team, author_person_id, co_authors, tags, visibility, confidentiality) ==
  [doc_id |-> doc_id, team |-> team, author_person_id |-> author_person_id,
   co_authors |-> co_authors, tags |-> tags, language |-> "en",
   visibility |-> visibility, confidentiality |-> confidentiality,
   related_doc_ids |-> <<>>]

\* doc_id = f"DOC_{self.doc_counter:03d}"
DocId(counter) == FormatId("DOC_", counter, 3)

\* ContextManager.get_people_by_team
get_people_by_team(team) ==
  LET person_ids == SelectSeq(people_by_team[team],
                              LAMBDA pid : pid \in DOMAIN ctx_people)
  IN [i \in 1..Len(person_ids) |-> ctx_people[person_ids[i]]]

\* DocumentGenerator.generate: documents // len(teams)
docs_per_team == config.documents \div Len(config.teams)

\* DocumentGenerator.generate: documents % len(teams)
remaining_docs == config.documents % Len(config.teams)

\* The count without the remainder.
team_doc_count_NoRemainder(i) == docs_per_team

\* DocumentGenerator.generate: the count handed to the i-th team (0-based).
team_doc_count(i) == IF i < remaining_docs THEN docs_per_team + 1 ELSE docs_per_team

\* The concatenation of a list of lists.
RECURSIVE Flatten(_)
Flatten(lists) ==
  IF lists = <<>> THEN <<>> ELSE Head(lists) \o Flatten(Tail(lists))

\* The elements of a list, each kept at its first occurrence.
RECURSIVE FirstOccurrences(_)
FirstOccurrences(s) ==
  IF s = <<>> THEN <<>>
  ELSE LET rest == FirstOccurrences(SubSeq(s, 1, Len(s) - 1))
           last == s[Len(s)]
       IN IF last \in Range(rest) THEN rest ELSE Append(rest, last)

\* The tags without the removal of duplicates.
Unique_KeepAll(tags) == tags

\* _generate_document_tags: unique_tags = list(set(tags)); the order of the
\* result is left to the sample that follows.
Unique(tags) == FirstOccurrences(tags)

\* One tag per word.
WordTags(words) == [i \in 1..Len(words) |-> <<words[i]>>]

\* _generate_document_tags: the tags before duplicates are removed.
RawTags(topic, themes, team_theme_tags) ==
  WordTags([i \in 1..Len(topic) |-> Lower[topic[i]]])
    \o WordTags(Flatten(SubSeq(themes, 1, Min2(2, Len(themes)))))
    \o team_theme_tags

\* _generate_document_tags: the team-specific tag, if the team has themes.
TeamThemeTags(d, team) ==
  IF content_themes[team] = <<>> THEN {<<>>}
  ELSE {<<theme>> : theme \in Range(content_themes[team]) \cap d.team_themes}

\* _generate_document_tags
DocumentTags(d, topic, themes, team) ==
  UNION {LET unique_tags == Unique(RawTags(topic, themes, team_theme_tags))
         IN {Pick(unique_tags, pos) :
               pos \in SamplePositions(d.tag_positions, Len(unique_tags),
                                       Min2(5, Len(unique_tags)))} :
         team_theme_tags \in TeamThemeTags(d, team)}

\* Every team member, the author included.
PotentialCoauthors_All(team_people, author) == team_people

\* _create_single_document: potential_coauthors
PotentialCoauthors(team_people, author) ==
  SelectSeq(team_people, LAMBDA p : p.person_id # author.person_id)

\* _create_single_document: the co-author lists a document may get.
CoAuthorChoices(d, with_coauthors, team_people, author) ==
  LET potential_coauthors == PotentialCoauthors(team_people, author)
      n == Len(potential_coauthors)
  IN IF with_coauthors /\ n > 0
     THEN {[i \in 1..Len(pos) |-> potential_coauthors[pos[i]].person_id] :
             pos \in UNION {SamplePositions(d.coauthor_positions, n, k) :
                              k \in 1..Min2(2, n)}}
     ELSE {<<>>}

\* DocumentGenerator.generate: entry, before the loop over the teams.
GenerateDocuments ==
  /\ pc = "org_done"
  /\ pc' = "team_documents"
  /\ UNCHANGED <<config, late_vars, error, org_vars, after_doc_vars, doc_vars>>

\* _create_single_document: the values visibility is chosen from.
visibilities == {"public", "internal", "restricted"}

\* _create_single_document: the values confidentiality is chosen from.
confidentialities == {"low", "medium", "high"}

\* _generate_team_documents: one iteration of the loop, _create_single_document.
CreateSingleDocument(d) ==
  /\ pc = "team_documents"
  /\ doc_team < Len(config.teams)
  /\ LET team == config.teams[doc_team + 1]
         team_people == get_people_by_team(team)
     IN /\ team_people # <<>>
        /\ doc_i < team_doc_count(doc_team)
        /\ \E topic \in Range(common_topics) \cap d.topics,
              template_name \in DOMAIN document_templates[team] \cap d.templates,
              author_pos \in DOMAIN team_people \cap d.authors,
              with_coauthors \in d.coauthors,
              visibility \in visibilities \cap d.visibilities,
              confidentiality \in confidentialities \cap d.confidentialities :
             LET author == team_people[author_pos]
                 themes == document_templates[team][template_name]
             IN \E co_authors \in CoAuthorChoices(d, with_coauthors, team_people, author),
                   tags \in DocumentTags(d, topic, themes, team) :
                  documents' = Append(documents,
                                 Document(DocId(doc_counter + 1), team,
                                          author.person_id, co_authors, tags,
                                          visibility, confidentiality))
  /\ doc_counter' = doc_counter + 1
  /\ doc_i' = doc_i + 1
  /\ UNCHANGED <<config, late_vars, pc, error, org_vars, after_doc_vars, doc_team, ctx_documents, document_tags>>

\* _generate_team_documents returns (no team people, or the count is reached)
\* and generate moves on to the next team.
FinishTeamDocuments ==
  /\ pc = "team_documents"
  /\ doc_team < Len(config.teams)
  /\ IF get_people_by_team(config.teams[doc_team + 1]) = <<>> THEN TRUE
     ELSE doc_i >= team_doc_count(doc_team)
  /\ doc_team' = doc_team + 1
  /\ doc_i' = 0
  /\ UNCHANGED <<config, late_vars, pc, error, org_vars, after_doc_vars, documents, doc_counter,
                 ctx_documents, document_tags>>

\* _add_non_english_documents: non_english_count
non_english_count == 5

\* The sequences that pick one element of each set of a list of sets.
RECURSIVE Choices(_, _)
Choices(options, n) ==
  IF n = 0 THEN {<<>>}
  ELSE {Append(c, x) : c \in Choices(options, n - 1), x \in options[n]}

\* _add_non_english_documents
AddNonEnglishDocuments(d) ==
  /\ pc = "team_documents"
  /\ doc_team = Len(config.teams)
  /\ IF Len(documents) < non_english_count
     THEN UNCHANGED documents
     ELSE \E pos \in SamplePositions(d.convert_positions, Len(documents),
                                     non_english_count),
             language \in Choices([k \in 1..non_english_count |->
                                     Range(languages) \cap d.languages],
                                  non_english_count) :
            documents' =
              [i \in DOMAIN documents |->
                 IF \E k \in DOMAIN pos : pos[k] = i
                 THEN [documents[i] EXCEPT
                         !.language = language[CHOOSE k \in DOMAIN pos : pos[k] = i]]
                 ELSE documents[i]]
  /\ pc' = "document_relationships"
  /\ UNCHANGED <<config, late_vars, error, org_vars, after_doc_vars, doc_counter, doc_team, doc_i,
                 ctx_documents, document_tags>>

\* _add_document_relationships: the keys of tag_groups, in insertion order.
TagGroupKeys(docs) ==
  FirstOccurrences(Flatten([i \in DOMAIN docs |-> docs[i].tags]))

\* _add_document_relationships: tag_groups[tag], as positions in the document
\* list; a document is appended once for each time it carries the tag.
TagGroup(docs, tag) ==
  Flatten([i \in DOMAIN docs |->
             SelectSeq([j \in DOMAIN docs[i].tags |->
                          IF docs[i].tags[j] = tag THEN i ELSE 0],
                       LAMBDA x : x # 0)])

\* _add_document_relationships: the related_doc_ids lists document i may hold
\* once the groups keys[1..k] have been gone through; a later group that the
\* document belongs to overwrites what an earlier one assigned.
RECURSIVE RelatedAfter(_, _, _, _, _)
RelatedAfter(d, docs, keys, k, i) ==
  IF k = 0 THEN {docs[i].related_doc_ids}
  ELSE LET group == TagGroup(docs, keys[k])
           related_docs == SelectSeq(group,
                             LAMBDA j : docs[j].doc_id # docs[i].doc_id)
           related_count == Min2(2, Len(related_docs))
       IN IF Len(group) > 1 /\ i \in Range(group) /\ related_docs # <<>>
          THEN {[n \in DOMAIN pos |-> docs[related_docs[pos[n]]].doc_id] :
                  pos \in SamplePositions(d.related_positions,
                                          Len(related_docs), related_count)}
          ELSE RelatedAfter(d, docs, keys, k - 1, i)

\* _add_document_relationships
AddDocumentRelationships(d) ==
  /\ pc = "document_relationships"
  /\ LET keys == TagGroupKeys(documents)
     IN \E related \in Choices([i \in DOMAIN documents |->
                                  RelatedAfter(d, documents, keys, Len(keys), i)],
                               Len(documents)) :
          documents' = [i \in DOMAIN documents |->
                          [documents[i] EXCEPT !.related_doc_ids = related[i]]]
  /\ pc' = "register_documents"
  /\ UNCHANGED <<config, late_vars, error, org_vars, after_doc_vars, doc_counter, doc_team, doc_i,
                 ctx_documents, document_tags>>

\* ContextManager.register_entity('document', doc_id, doc): defaultdict(set)
RECURSIVE IndexTags(_, _, _, _)
IndexTags(index, tags, k, doc_id) ==
  IF k > Len(tags) THEN index
  ELSE LET tag == tags[k]
           held == IF tag \in DOMAIN index THEN index[tag] ELSE {}
       IN IndexTags(Put(index, tag, held \cup {doc_id}), tags, k + 1, doc_id)

\* ContextManager.register_entity for a document.
register_document(reg, entity_id, entity) ==
  [documents |-> Put(reg.documents, entity_id, entity),
   document_tags |-> IndexTags(reg.document_tags, entity.tags, 1, entity_id)]

RECURSIVE RegisterDocumentsFrom(_, _, _)
RegisterDocumentsFrom(reg, docs, k) ==
  IF k > Len(docs) THEN reg
  ELSE RegisterDocumentsFrom(register_document(reg, docs[k].doc_id, docs[k]),
                             docs, k + 1)

\* DocumentGenerator.generate: the registration loop that ends it.
RegisterDocuments ==
  /\ pc = "register_documents"
  /\ LET reg == RegisterDocumentsFrom(
                  [documents |-> ctx_documents, document_tags |-> document_tags],
                  documents, 1)
     IN /\ ctx_documents' = reg.documents
        /\ document_tags' = reg.document_tags
  /\ pc' = "docs_done"
  /\ UNCHANGED <<config, late_vars, error, org_vars, after_doc_vars, documents, doc_counter, doc_team, doc_i>>

(***************************************************************************)
(* Communication Builder (generators/communication.py).  A time is the     *)
(* number of minutes since temporal.start_date.                            *)
(***************************************************************************)
\* CommunicationGenerator.channel_types, the frequency in tenths.
channel_types ==
  << [name |-> "team-general", tenths |-> 4],
     [name |-> "project-specific", tenths |-> 3],
     [name |-> "cross-team", tenths |-> 2],
     [name |-> "random", tenths |-> 1] >>

\* CommunicationGenerator.project_names
project_names ==
  <<"alpha", "beta", "gamma", "delta", "phoenix", "nova", "titan",
    "catalyst", "nexus", "vertex", "prism", "fusion", "quantum">>

\* CommunicationGenerator.cross_team_topics
cross_team_topics ==
  <<"sync", "planning", "launch", "review", "strategy", "metrics",
    "onboarding", "security", "compliance", "infrastructure">>

\* _generate_duplicate_discussions: the 25 duplicate_topics, as phrases.
all_duplicate_topics ==
  <<<<"customer", "churn", "analysis">>, <<"onboarding", "optimization">>,
    <<"pricing", "review">>, <<"performance", "metrics">>,
    <<"security", "audit">>, <<"API", "integration">>,
    <<"data", "migration">>, <<"user", "feedback", "analysis">>,
    <<"system", "monitoring">>, <<"cost", "optimization">>,
    <<"feature", "prioritization">>, <<"compliance", "review">>,
    <<"infrastructure", "upgrade">>, <<"market", "research">>,
    <<"competitive", "analysis">>, <<"user", "experience", "study">>,
    <<"budget", "planning">>, <<"risk", "assessment">>,
    <<"process", "improvement">>, <<"team", "restructuring">>,
    <<"training", "program">>, <<"vendor", "evaluation">>,
    <<"product", "roadmap">>, <<"customer", "support">>,
    <<"quality", "assurance">>>>

\* _generate_emotional_threads: emotional_scenarios
emotional_scenarios ==
  <<[emotion |-> "frustrated", topic |-> <<"deployment", "failure">>, intensity |-> "high"],
    [emotion |-> "frustrated", topic |-> <<"system", "outage">>, intensity |-> "high"],
    [emotion |-> "confused", topic |-> <<"unclear", "requirements">>, intensity |-> "medium"],
    [emotion |-> "confused", topic |-> <<"conflicting", "priorities">>, intensity |-> "medium"],
    [emotion |-> "urgent", topic |-> <<"security", "breach">>, intensity |-> "critical"],
    [emotion |-> "urgent", topic |-> <<"customer", "complaint">>, intensity |-> "high"],
    [emotion |-> "frustrated", topic |-> <<"budget", "cuts">>, intensity |-> "medium"],
    [emotion |-> "confused", topic |-> <<"process", "changes">>, intensity |-> "low"]>>
\* The duplicate topics gone through: the first MaxDupTopics of the 25.
MaxDupTopics == 2

duplicate_topics == SubSeq(all_duplicate_topics, 1, MaxDupTopics)

\* The emotional threads generated: range(20) in the code, cut to MaxEmotional.
MaxEmotional == 2

emotional_thread_count == MaxEmotional

\* The days between temporal.start_date (2024-01-01) and end_date (2025-10-24).
days_between == 662

\* _generate_thread_start_time: a day of the range, an hour from 9 to 16 and
\* a minute from 0 to 59.
IsStartTime(t) ==
  /\ t \div 1440 \in 0..(days_between - 1)
  /\ (t % 1440) \div 60 \in 9..16

StartTimes(times) == {t \in times : IsStartTime(t)}

\* The draws of the Communication Builder.
CommDraws ==
  [general_teams |-> {"Marketing"},
   projects |-> {"alpha"},
   cross_topics |-> {"sync"},
   created_at |-> {600},
   message_start |-> {540, 600},
   participant_counts |-> {2},
   positions |-> {<<1>>, <<1, 2>>, <<1, 2, 3>>, <<1, 2, 3, 4, 5, 6>>},
   message_counts |-> {8},
   senders |-> {1},
   gaps |-> {5},
   emotions |-> {"calm"},
   team_positions |-> {<<1, 2>>, <<2, 1>>, <<3, 1>>},
   dup_message_counts |-> {3},
   scenarios |-> {1, 3},
   emo_participant_counts |-> {3, 6},
   emo_message_counts |-> {6}]

\* models.core.ChatThread (channel left out: it repeats topic_tags)
ChatThread(thread_id, topic_tags, created_at, participants) ==
  [thread_id |-> thread_id, topic_tags |-> topic_tags,
   created_at |-> created_at, participants |-> participants]

\* models.core.ChatMessage (the fields the builders set from the run)
ChatMessage(message_id, thread_id, sender_person_id, timestamp, emotions) ==
  [message_id |-> message_id, thread_id |-> thread_id,
   sender_person_id |-> sender_person_id, timestamp |-> timestamp,
   emotions |-> emotions]

\* thread_id = f"T_{self.thread_counter:03d}"
ThreadId(counter) == FormatId("T_", counter, 3)

\* message_id = f"M_{self.message_counter:04d}"
MessageId(counter) == FormatId("M_", counter, 4)

\* list(self.context.people.values()): the people in registration order.
AllPeople == [i \in DOMAIN people |-> ctx_people[people[i].person_id]]

\* int(chat_threads * frequency) for the channel type at position type; the
\* float product truncates to this quotient for every count below 3000.
thread_count(type) == (config.chat_threads * channel_types[type].tenths) \div 10

\* _create_thread: topic_tags by channel type.
ThreadTopicTags(d, channel_type) ==
  IF channel_type = "team-general"
  THEN {<< <<Lower[team]>>, <<"general">> >> :
          team \in Range(config.teams) \cap d.general_teams}
  ELSE IF channel_type = "project-specific"
  THEN {<< <<"project">>, <<project>> >> :
          project \in Range(project_names) \cap d.projects}
  ELSE IF channel_type = "cross-team"
  THEN {<< <<"cross-team">>, <<topic>> >> :
          topic \in Range(cross_team_topics) \cap d.cross_topics}
  ELSE {<< <<"random">>, <<"casual">> >>}

\* The sum of the first k elements of a list of numbers.
RECURSIVE SumTo(_, _)
SumTo(s, k) == IF k = 0 THEN 0 ELSE SumTo(s, k - 1) + s[k]

\* The sender and the time gap drawn for each of n messages.
MessageDraws(d, n, participants, gap_range) ==
  Choices([k \in 1..n |-> [sender : DOMAIN participants \cap d.senders,
                           gap : d.gaps \cap gap_range]], n)

\* The time of the k-th message: the start plus the gaps drawn before it.
MessageTime(start, run, k) ==
  start + SumTo([j \in DOMAIN run |-> run[j].gap], k - 1)

\* _select_emotion for the contexts _select_message_context returns.
RegularEmotions == {"calm", "optimistic", "frustrated", "confused"}

\* CommunicationGenerator.generate: entry, before the loop over channel types.
GenerateCommunication ==
  /\ pc = "docs_done"
  /\ pc' = "channel_threads"
  /\ UNCHANGED <<config, late_vars, error, org_vars, doc_vars, kg_vars, comm_vars>>

\* _generate_thread_with_messages (with _create_thread and _create_message)
GenerateThreadWithMessages(d) ==
  /\ pc = "channel_threads"
  /\ comm_type < Len(channel_types)
  /\ comm_i < thread_count(comm_type + 1)
  /\ LET channel_type == channel_types[comm_type + 1].name
         all_people == AllPeople
     IN \E topic_tags \in ThreadTopicTags(d, channel_type),
           created_at \in StartTimes(d.created_at),
           message_count \in (8..15) \cap d.message_counts,
           participant_count \in (2..Min2(6, Len(all_people))) \cap d.participant_counts,
           current_time \in StartTimes(d.message_start) :
          \E pos \in SamplePositions(d.positions, Len(all_people), participant_count) :
            LET participants == Pick(all_people, pos)
                thread == ChatThread(ThreadId(thread_counter + 1), topic_tags, created_at,
                                     [i \in DOMAIN participants |-> participants[i].person_id])
            IN \E run \in MessageDraws(d, message_count, participants, 1..30),
                  emotion \in Choices([k \in 1..message_count |->
                                         RegularEmotions \cap d.emotions], message_count) :
                 /\ threads' = Append(threads, thread)
                 /\ messages' = messages \o
                      [k \in 1..message_count |->
                         ChatMessage(MessageId(message_counter + k), thread.thread_id,
                                     participants[run[k].sender].person_id,
                                     MessageTime(current_time, run, k), emotion[k])]
                 /\ message_counter' = message_counter + message_count
  /\ thread_counter' = thread_counter + 1
  /\ comm_i' = comm_i + 1
  /\ UNCHANGED <<config, late_vars, pc, error, org_vars, doc_vars, kg_vars, comm_type,
                 duplicate_threads, duplicate_messages, dup_i,
                 emotional_threads, emotional_messages, emo_i, ctx_threads>>

\* generate: the inner loop of a channel type is over; the next type, or the
\* duplicate discussions after the last one.
NextChannelType ==
  /\ pc = "channel_threads"
  /\ comm_type < Len(channel_types)
  /\ comm_i >= thread_count(comm_type + 1)
  /\ comm_type' = comm_type + 1
  /\ comm_i' = 0
  /\ pc' = IF comm_type + 1 = Len(channel_types) THEN "duplicate_discussions" ELSE pc
  /\ UNCHANGED <<config, late_vars, error, org_vars, doc_vars, kg_vars, threads, messages,
                 thread_counter, message_counter,
                 duplicate_threads, duplicate_messages, dup_i,
                 emotional_threads, emotional_messages, emo_i, ctx_threads>>

\* thread_id = f"T_DUP_{len(duplicate_threads) + 1:03d}"
DupThreadId(n_duplicate_threads) == FormatId("T_DUP_", n_duplicate_threads + 1, 3)

\* The message id numbered within its own thread only.
DupMessageId_PerThread(n_duplicate_messages, n_messages) ==
  FormatId("M_DUP_", n_messages + 1, 4)

\* message_id = f"M_DUP_{len(duplicate_messages) + len(messages) + 1:04d}"
DupMessageId(n_duplicate_messages, n_messages) ==
  FormatId("M_DUP_", n_duplicate_messages + n_messages + 1, 4)

\* _generate_duplicate_discussions: the body of "for team in teams" from the
\* lists dup = [threads, messages]; the lists it may leave.  The thread is
\* appended only when the team has people.
DuplicateThread(d, topic, team, dup) ==
  LET team_people == get_people_by_team(team)
      thread_id == DupThreadId(Len(dup.threads))
      topic_tags == << <<Lower[team]>>, topic >>
  IN IF team_people = <<>> THEN {dup}
     ELSE UNION {
       LET participants == Pick(team_people, pos)
           thread == ChatThread(thread_id, topic_tags, created_at,
                                [i \in DOMAIN participants |-> participants[i].person_id])
       IN {[threads |-> Append(dup.threads, thread),
            messages |-> dup.messages \o
              [k \in 1..Len(run) |->
                 ChatMessage(DupMessageId(Len(dup.messages), k - 1), thread_id,
                             participants[run[k].sender].person_id,
                             MessageTime(created_at, run, k), "confused")]] :
             run \in UNION {MessageDraws(d, n, participants, 5..30) :
                              n \in (3..5) \cap d.dup_message_counts}} :
       created_at \in StartTimes(d.created_at),
       pos \in SamplePositions(d.positions, Len(team_people),
                               Min2(3, Len(team_people)))}

\* _generate_duplicate_discussions: one topic, two sampled teams.
\* random.sample(teams, 2) raises ValueError when fewer than two teams are
\* configured.
DuplicateDiscussion(d) ==
  /\ pc = "duplicate_discussions"
  /\ dup_i < Len(duplicate_topics)
  /\ IF Len(config.teams) < 2
     THEN /\ pc' = "crashed"
          /\ error' = "ValueError"
          /\ UNCHANGED <<duplicate_threads, duplicate_messages, dup_i>>
     ELSE /\ \E team_pos \in SamplePositions(d.team_positions, Len(config.teams), 2) :
               LET teams == Pick(config.teams, team_pos)
                   topic == duplicate_topics[dup_i + 1]
                   start == [threads |-> duplicate_threads,
                             messages |-> duplicate_messages]
               IN \E first \in DuplicateThread(d, topic, teams[1], start) :
                    \E second \in DuplicateThread(d, topic, teams[2], first) :
                      /\ duplicate_threads' = second.threads
                      /\ duplicate_messages' = second.messages
          /\ dup_i' = dup_i + 1
          /\ UNCHANGED <<pc, error>>
  /\ UNCHANGED <<config, late_vars, org_vars, doc_vars, kg_vars, threads, messages, thread_counter,
                 message_counter, comm_type, comm_i,
                 emotional_threads, emotional_messages, emo_i, ctx_threads>>

\* generate: threads.extend(duplicate_threads); all_messages.extend(...)
ExtendWithDuplicates ==
  /\ pc = "duplicate_discussions"
  /\ dup_i = Len(duplicate_topics)
  /\ threads' = threads \o duplicate_threads
  /\ messages' = messages \o duplicate_messages
  /\ pc' = "emotional_threads"
  /\ UNCHANGED <<config, late_vars, error, org_vars, doc_vars, kg_vars, thread_counter, message_counter,
                 comm_type, comm_i, duplicate_threads, duplicate_messages, dup_i,
                 emotional_threads, emotional_messages, emo_i, ctx_threads>>

\* thread_id = f"T_EMO_{i + 1:03d}"
EmoThreadId(i) == FormatId("T_EMO_", i + 1, 3)

\* message_id = f"M_EMO_{len(emotional_messages) + len(messages) + 1:04d}"
EmoMessageId(n_emotional_messages, n_messages) ==
  FormatId("M_EMO_", n_emotional_messages + n_messages + 1, 4)

\* _generate_emotional_threads: the emotion of message j (0-based).
EscalatedEmotion(scenario, j) ==
  IF j < 2 THEN scenario.emotion
  ELSE IF j < 5
       THEN (IF scenario.emotion # "frustrated" THEN "frustrated" ELSE "urgent")
       ELSE "calm"

\* _generate_emotional_threads: one iteration of "for i in range(20)".
\* random.sample(all_people, k) raises ValueError when k exceeds the people.
EmotionalThread(d) ==
  /\ pc = "emotional_threads"
  /\ emo_i < emotional_thread_count
  /\ \E s \in DOMAIN emotional_scenarios \cap d.scenarios,
        created_at \in StartTimes(d.created_at),
        participant_count \in (3..6) \cap d.emo_participant_counts :
       LET scenario == emotional_scenarios[s]
           all_people == AllPeople
           thread_id == EmoThreadId(emo_i)
       IN IF participant_count > Len(all_people)
          THEN /\ pc' = "crashed"
               /\ error' = "ValueError"
               /\ UNCHANGED <<emotional_threads, emotional_messages, emo_i>>
          ELSE /\ \E pos \in SamplePositions(d.positions, Len(all_people), participant_count),
                     message_count \in (5..10) \cap d.emo_message_counts :
                    LET participants == Pick(all_people, pos)
                        thread == ChatThread(thread_id, << <<"incident">>, scenario.topic >>,
                                    created_at,
                                    [i \in DOMAIN participants |-> participants[i].person_id])
                    IN \E run \in MessageDraws(d, message_count, participants, 2..15) :
                         /\ emotional_threads' = Append(emotional_threads, thread)
                         /\ emotional_messages' = emotional_messages \o
                              [k \in 1..message_count |->
                                 ChatMessage(EmoMessageId(Len(emotional_messages), k - 1),
                                             thread_id,
                                             participants[run[k].sender].person_id,
                                             MessageTime(created_at, run, k),
                                             EscalatedEmotion(scenario, k - 1))]
               /\ emo_i' = emo_i + 1
               /\ UNCHANGED <<pc, error>>
  /\ UNCHANGED <<config, late_vars, org_vars, doc_vars, kg_vars, threads, messages, thread_counter,
                 message_counter, comm_type, comm_i,
                 duplicate_threads, duplicate_messages, dup_i, ctx_threads>>

\* A variant that registers the first thread only.
RegisterThreadsFrom_FirstOnly(reg, ths, k) ==
  IF ths = <<>> THEN reg ELSE Put(reg, ths[1].thread_id, ths[1])

\* ContextManager.register_entity('thread', thread_id, thread) for each thread.
RECURSIVE RegisterThreadsFrom(_, _, _)
RegisterThreadsFrom(reg, ths, k) ==
  IF k > Len(ths) THEN reg
  ELSE RegisterThreadsFrom(Put(reg, ths[k].thread_id, ths[k]), ths, k + 1)

\* generate: the emotional threads are appended and every thread registered.
RegisterThreads ==
  /\ pc = "emotional_threads"
  /\ emo_i = emotional_thread_count
  /\ threads' = threads \o emotional_threads
  /\ messages' = messages \o emotional_messages
  /\ ctx_threads' = RegisterThreadsFrom(ctx_threads, threads \o emotional_threads, 1)
  /\ pc' = "comm_done"
  /\ UNCHANGED <<config, late_vars, error, org_vars, doc_vars, kg_vars, thread_counter, message_counter,
                 comm_type, comm_i, duplicate_threads, duplicate_messages, dup_i,
                 emotional_threads, emotional_messages, emo_i>>

(***************************************************************************)
(* Knowledge Graph Builder (generators/knowledge_graph.py).                *)
(***************************************************************************)
\* _generate_topics: core_topics
core_topics ==
  <<<<"customer", "churn">>, <<"onboarding", "experience">>,
    <<"pricing", "strategy">>, <<"user", "engagement">>,
    <<"performance", "metrics">>, <<"quarterly", "planning">>,
    <<"system", "performance">>, <<"data", "analytics">>,
    <<"mobile", "app">>, <<"API", "integration">>,
    <<"security", "framework">>, <<"cloud", "migration">>,
    <<"feature", "rollout">>, <<"market", "expansion">>,
    <<"customer", "feedback">>, <<"product", "roadmap">>,
    <<"revenue", "growth">>, <<"cost", "optimization">>,
    <<"team", "collaboration">>, <<"process", "improvement">>>>

\* _generate_topics: team_topics, in the order of the dictionary.
team_topics ==
  <<[team |-> "Marketing",
     topics |->
       <<<<"campaign", "optimization">>, <<"brand", "awareness">>,
         <<"lead", "generation">>, <<"conversion", "rates">>,
         <<"customer", "acquisition">>, <<"market", "research">>,
         <<"competitive", "analysis">>, <<"content", "strategy">>>>],
    [team |-> "Product",
     topics |->
       <<<<"user", "experience">>, <<"feature", "prioritization">>,
         <<"product", "analytics">>, <<"user", "research">>,
         <<"A/B", "testing">>, <<"product", "metrics">>,
         <<"feature", "adoption">>, <<"user", "journey">>>>],
    [team |-> "Engineering",
     topics |->
       <<<<"system", "architecture">>, <<"code", "quality">>,
         <<"deployment", "automation">>, <<"monitoring">>,
         <<"scalability">>, <<"technical", "debt">>,
         <<"performance", "optimization">>, <<"infrastructure">>>>],
    [team |-> "Finance",
     topics |->
       <<<<"budget", "planning">>, <<"financial", "forecasting">>,
         <<"cost", "analysis">>, <<"ROI", "measurement">>,
         <<"revenue", "tracking">>, <<"expense", "management">>,
         <<"financial", "reporting">>, <<"risk", "assessment">>>>],
    [team |-> "HR",
     topics |->
       <<<<"employee", "engagement">>, <<"talent", "acquisition">>,
         <<"performance", "management">>, <<"training">>,
         <<"company", "culture">>, <<"team", "building">>,
         <<"compensation">>, <<"employee", "retention">>>>]>>

\* _generate_topics: emerging_topics
emerging_topics ==
  <<<<"AI", "integration">>, <<"remote", "work", "optimization">>,
    <<"sustainability", "initiatives">>, <<"digital", "transformation">>,
    <<"customer", "experience", "automation">>,
    <<"data", "privacy", "compliance">>>>

\* _are_topics_related: related_patterns
related_patterns ==
  <<<<{"customer", "churn", "retention"},
      {"customer", "engagement", "satisfaction", "feedback"}>>,
    <<{"performance", "metrics"},
      {"analytics", "monitoring", "optimization"}>>,
    <<{"product", "feature"},
      {"user", "experience", "adoption", "roadmap"}>>,
    <<{"revenue", "cost", "budget"},
      {"pricing", "ROI", "financial"}>>,
    <<{"system", "architecture"},
      {"performance", "scalability", "infrastructure"}>>,
    <<{"process", "workflow"},
      {"automation", "optimization", "efficiency"}>>>>

\* KnowledgeGraphGenerator.edge_type_weights: the edge types.
edge_types ==
  <<"AUTHORED", "VIEWED", "MENTIONED", "CO_OCCURS_WITH", "SIMILAR_TOPIC",
    "TEAM_OVERLAP", "WORKED_WITH", "VERSION_OF", "REPLACES", "ASKED_ABOUT">>

\* str.lower() on a word of a topic name.
LowerWord(w) ==
  IF w \in DOMAIN Lower THEN Lower[w]
  ELSE IF w = "API" THEN "api"
  ELSE IF w = "ROI" THEN "roi"
  ELSE IF w = "A/B" THEN "a/b"
  ELSE IF w = "AI" THEN "ai"
  ELSE w

\* models.core.Topic (aliases and emerging_score left out)
Topic(topic_id, name) ==
  [topic_id |-> topic_id, name |-> name, related_topic_ids |-> <<>>]

\* topic_id = f"TOPIC_{self.topic_counter:03d}"
TopicId(counter) == FormatId("TOPIC_", counter, 3)

\* _generate_topics: the names in creation order: the core topics, the topics
\* of each team (name = display_name), the emerging topics.
TopicNames ==
  core_topics
    \o Flatten([i \in DOMAIN team_topics |-> team_topics[i].topics])
    \o emerging_topics

\* set(topic.lower().split())
NameWords(name) == {LowerWord(name[i]) : i \in DOMAIN name}

\* _are_topics_related
AreTopicsRelated(topic1, topic2) ==
  LET topic1_words == NameWords(topic1)
      topic2_words == NameWords(topic2)
  IN \/ \E p \in DOMAIN related_patterns :
          \/ /\ topic1_words \cap related_patterns[p][1] # {}
             /\ topic2_words \cap related_patterns[p][2] # {}
          \/ /\ topic1_words \cap related_patterns[p][2] # {}
             /\ topic2_words \cap related_patterns[p][1] # {}
     \/ topic1_words \cap topic2_words # {}

\* The draws of the Knowledge Graph Builder.
KgDraws ==
  [related_counts |-> {2},
   positions |-> {<<1>>, <<1, 2>>, <<1, 2, 3>>},
   view_counts |-> {5},
   version_tries |-> {5},
   version_positions |-> {<<1, 2>>},
   pad_types |-> {"AUTHORED", "MENTIONED"},
   pad_people |-> {1},
   pad_documents |-> {1}]

\* _add_topic_relationships: the related_topic_ids a topic may be given.
RelatedTopicChoices(d, tps, i) ==
  LET others == SelectSeq([j \in DOMAIN tps |-> j],
                          LAMBDA j : /\ tps[j].topic_id # tps[i].topic_id
                                     /\ AreTopicsRelated(tps[i].name, tps[j].name))
      related_topics == [k \in DOMAIN others |-> tps[others[k]].topic_id]
      n == Len(related_topics)
  IN IF n = 0 THEN {tps[i].related_topic_ids}
     ELSE UNION {{Pick(related_topics, pos) :
                    pos \in SamplePositions(d.positions, n, Min2(count, n))} :
                 count \in (2..4) \cap d.related_counts}

\* _generate_topics
GenerateTopics(d) ==
  /\ pc = "comm_done"
  /\ LET created == [k \in DOMAIN TopicNames |->
                       Topic(TopicId(topic_counter + k), TopicNames[k])]
     IN \E related \in Choices([i \in DOMAIN created |->
                                  RelatedTopicChoices(d, created, i)], Len(created)) :
          topics' = [i \in DOMAIN created |->
                       [created[i] EXCEPT !.related_topic_ids = related[i]]]
  /\ topic_counter' = topic_counter + Len(TopicNames)
  /\ pc' = "authored_edges"
  /\ UNCHANGED <<config, late_vars, error, org_vars, doc_vars, comm_vars,
                 edges, edge_counter, generated_topics, ctx_topics>>

\* models.knowledge_graph.KnowledgeGraphEdge (weight, timestamps and evidence left out);
\* a TEAM endpoint is the one-element list of the team name.
NewEdge(edge_type, src_type, src_id, dst_type, dst_id) ==
  [edge_type |-> edge_type, src_type |-> src_type, src_id |-> src_id,
   dst_type |-> dst_type, dst_id |-> dst_id]

\* edge_id = f"E_{self.edge_counter:04d}"
EdgeId(counter) == FormatId("E_", counter, 4)

\* The edges after _create_edge has been called for each of new, in order.
CreateEdges(es, counter, new) ==
  es \o [k \in DOMAIN new |->
           [edge_id |-> EdgeId(counter + k), edge_type |-> new[k].edge_type,
            src_type |-> new[k].src_type, src_id |-> new[k].src_id,
            dst_type |-> new[k].dst_type, dst_id |-> new[k].dst_id]]

\* list(self.context.documents.values()): the documents in registration order.
RegisteredDocuments ==
  LET registered == SelectSeq(documents, LAMBDA doc : doc.doc_id \in DOMAIN ctx_documents)
  IN [i \in DOMAIN registered |-> ctx_documents[registered[i].doc_id]]

\* list(self.context.chat_threads.values()): the threads in registration order.
RegisteredThreads ==
  LET registered == SelectSeq(threads, LAMBDA t : t.thread_id \in DOMAIN ctx_threads)
  IN [i \in DOMAIN registered |-> ctx_threads[registered[i].thread_id]]

\* One sub-generator of _generate_edges: its edges are appended and the run
\* moves on to the sub-generator (or the step) called next.
ExtendEdges(new, next) ==
  /\ edges' = CreateEdges(edges, edge_counter, new)
  /\ edge_counter' = edge_counter + Len(new)
  /\ pc' = next
  /\ UNCHANGED <<config, late_vars, error, org_vars, doc_vars, comm_vars,
                 topics, topic_counter, generated_topics, ctx_topics>>

\* _generate_authored_edges
AuthoredEdges ==
  /\ pc = "authored_edges"
  /\ ExtendEdges(
    LET docs == RegisteredDocuments
    IN Flatten([i \in DOMAIN docs |->
         <<NewEdge("AUTHORED", "PERSON", docs[i].author_person_id, "DOC", docs[i].doc_id)>>
           \o [k \in DOMAIN docs[i].co_authors |->
                 NewEdge("AUTHORED", "PERSON", docs[i].co_authors[k],
                         "DOC", docs[i].doc_id)]]),
    "viewed_edges")

\* _generate_viewed_edges: the documents a person may view.
ViewedDocChoices(d, person) ==
  LET docs == RegisteredDocuments
      same_team_docs == SelectSeq(docs, LAMBDA doc : doc.team = person.team)
      other_team_docs == SelectSeq(docs, LAMBDA doc : doc.team # person.team)
  IN UNION {
       LET same_team_views == (view_count * 7) \div 10
           cross_team_views == view_count - same_team_views
           same == IF same_team_docs = <<>> THEN {<<>>}
                   ELSE {Pick(same_team_docs, pos) :
                           pos \in SamplePositions(d.positions, Len(same_team_docs),
                                     Min2(same_team_views, Len(same_team_docs)))}
           other == IF other_team_docs = <<>> THEN {<<>>}
                    ELSE {Pick(other_team_docs, pos) :
                            pos \in SamplePositions(d.positions, Len(other_team_docs),
                                      Min2(cross_team_views, Len(other_team_docs)))}
       IN {s \o o : s \in same, o \in other} :
       view_count \in (5..15) \cap d.view_counts}

\* _generate_viewed_edges
ViewedEdges(d) ==
  /\ pc = "viewed_edges"
  /\ LET all_people == AllPeople
     IN \E viewed \in Choices([i \in DOMAIN all_people |->
                                 ViewedDocChoices(d, all_people[i])], Len(all_people)) :
          ExtendEdges(
            Flatten([i \in DOMAIN all_people |->
                       [k \in DOMAIN viewed[i] |->
                          NewEdge("VIEWED", "PERSON", all_people[i].person_id,
                                  "DOC", viewed[i][k].doc_id)]]),
            "mentioned_edges")

\* _generate_mentioned_edges: the loop goes over the registered threads and
\* reads their doc_refs attribute, which a ChatThread does not have, so
\* getattr yields the empty default.
MentionedEdges ==
  /\ pc = "mentioned_edges"
  /\ ExtendEdges(<<>>, "co_occurrence_edges")

\* _generate_co_occurrence_edges: the test of "Find matching topics", with
\* the substring tests taken word by word (a tag joins its words with "_",
\* a topic name with " ", and the alias of a name replaces " " by "_").
TagMatchesTopic(tag, topic) ==
  LET tag_words == [i \in DOMAIN tag |-> LowerWord(tag[i])]
      name_words == [i \in DOMAIN topic.name |-> LowerWord(topic.name[i])]
  IN \/ Len(tag_words) = 1 /\ tag_words[1] \in Range(name_words)
     \/ Len(name_words) = 1 /\ name_words[1] \in Range(tag_words)
     \/ Len(name_words) > 1 /\ name_words = tag_words

\* _generate_co_occurrence_edges: doc_topics of a document.
DocTopics(doc) ==
  Flatten([t \in DOMAIN doc.tags |->
             LET matching == SelectSeq(generated_topics,
                               LAMBDA topic : TagMatchesTopic(doc.tags[t], topic))
             IN [k \in DOMAIN matching |-> matching[k].topic_id]])

\* _generate_co_occurrence_edges: topic_cooccurrence[topic1][topic2].
CoOccurrences(topic1, topic2) ==
  LET docs == RegisteredDocuments
      InDoc(i) ==
        LET doc_topics == DocTopics(docs[i])
        IN Cardinality({p \in (DOMAIN doc_topics) \X (DOMAIN doc_topics) :
                          /\ p[1] < p[2]
                          /\ \/ doc_topics[p[1]] = topic1 /\ doc_topics[p[2]] = topic2
                             \/ doc_topics[p[1]] = topic2 /\ doc_topics[p[2]] = topic1})
             * (IF topic1 = topic2 THEN 2 ELSE 1)
  IN SumTo([i \in DOMAIN docs |-> InDoc(i)], Len(docs))

\* _generate_co_occurrence_edges.  The topics matched are those of
\* self.generated_topics, which generate assigns after _generate_edges has
\* returned.  The pairs are taken in the order of the topic list.
CoOccurrenceEdges ==
  /\ pc = "co_occurrence_edges"
  /\ ExtendEdges(
    Flatten([i \in DOMAIN generated_topics |->
      LET significant == SelectSeq(generated_topics,
            LAMBDA topic2 : CoOccurrences(generated_topics[i].topic_id,
                                          topic2.topic_id) >= 2)
      IN [k \in DOMAIN significant |->
            NewEdge("CO_OCCURS_WITH", "TOPIC", generated_topics[i].topic_id,
                    "TOPIC", significant[k].topic_id)]]),
    "similar_topic_edges")

\* _generate_similar_topic_edges: it too goes over self.generated_topics.
SimilarTopicEdges ==
  /\ pc = "similar_topic_edges"
  /\ ExtendEdges(
    Flatten([i \in DOMAIN generated_topics |->
      [k \in DOMAIN generated_topics[i].related_topic_ids |->
         NewEdge("SIMILAR_TOPIC", "TOPIC", generated_topics[i].topic_id,
                 "TOPIC", generated_topics[i].related_topic_ids[k])]]),
    "team_overlap_edges")

\* The rank of a team name in the order of str comparison.
TeamRank ==
  [t \in TeamNames |->
     CASE t = "Engineering" -> 1
       [] t = "Finance" -> 2
       [] t = "HR" -> 3
       [] t = "Marketing" -> 4
       [] t = "Product" -> 5]

\* _generate_team_overlap_edges: the tags of the documents of a team.
TeamTags(team) ==
  LET docs == RegisteredDocuments
  IN UNION {Range(docs[i].tags) : i \in {j \in DOMAIN docs : docs[j].team = team}}

\* _generate_team_overlap_edges
TeamOverlapEdges ==
  /\ pc = "team_overlap_edges"
  /\ ExtendEdges(
    LET teams == config.teams
    IN Flatten([i \in DOMAIN teams |->
         LET partners == SelectSeq(teams,
               LAMBDA team2 : /\ TeamRank[teams[i]] < TeamRank[team2]
                              /\ TeamTags(teams[i]) \cap TeamTags(team2) # {})
         IN [k \in DOMAIN partners |->
               NewEdge("TEAM_OVERLAP", "TEAM", <<teams[i]>>, "TEAM", <<partners[k]>>)]]),
    "worked_with_edges")

\* _generate_worked_with_edges: the pairs person1, person2 of a thread.
ParticipantPairs(participants) ==
  Flatten([i \in DOMAIN participants |->
             [k \in 1..(Len(participants) - i) |->
                <<participants[i], participants[i + k]>>]])

\* _generate_worked_with_edges
WorkedWithEdges ==
  /\ pc = "worked_with_edges"
  /\ ExtendEdges(
    LET docs == RegisteredDocuments
        ths == RegisteredThreads
    IN Flatten([i \in DOMAIN docs |->
                  [k \in DOMAIN docs[i].co_authors |->
                     NewEdge("WORKED_WITH", "PERSON", docs[i].author_person_id,
                             "PERSON", docs[i].co_authors[k])]])
         \o Flatten([i \in DOMAIN ths |->
                  LET pairs == ParticipantPairs(ths[i].participants)
                  IN [k \in DOMAIN pairs |->
                        NewEdge("WORKED_WITH", "PERSON", pairs[k][1],
                                "PERSON", pairs[k][2])]]),
    "version_edges")

\* _generate_version_edges: the edges of one try, none when fewer than two
\* documents exist or the sampled two do not match.
VersionTry(docs, pos) ==
  IF Len(docs) < 2 THEN <<>>
  ELSE LET doc1 == docs[pos[1]]
           doc2 == docs[pos[2]]
       IN IF doc1.team = doc2.team /\ Range(doc1.tags) \cap Range(doc2.tags) # {}
          THEN <<NewEdge("VERSION_OF", "DOC", doc2.doc_id, "DOC", doc1.doc_id)>>
          ELSE <<>>

\* _generate_version_edges
VersionEdges(d) ==
  /\ pc = "version_edges"
  /\ LET docs == RegisteredDocuments
         samples == IF Len(docs) < 2 THEN {<<>>}
                    ELSE SamplePositions(d.version_positions, Len(docs), 2)
     IN \E tries \in (5..10) \cap d.version_tries :
          \E drawn \in Choices([t \in 1..tries |-> samples], tries) :
            ExtendEdges(Flatten([t \in 1..tries |-> VersionTry(docs, drawn[t])]),
                        "pad_edges")

\* _generate_edges: one turn of "while len(edges) < knowledge_graph_edges".
\* _generate_random_edge returns None for every edge type but AUTHORED and
\* VIEWED, and when there is no person or no document.
PadEdge(d) ==
  /\ pc = "pad_edges"
  /\ Len(edges) < config.knowledge_graph_edges
  /\ \E edge_type \in Range(edge_types) \cap d.pad_types :
       LET person_ids == [i \in DOMAIN AllPeople |-> AllPeople[i].person_id]
           doc_ids == [i \in DOMAIN RegisteredDocuments |-> RegisteredDocuments[i].doc_id]
       IN IF edge_type \in {"AUTHORED", "VIEWED"} /\ person_ids # <<>> /\ doc_ids # <<>>
          THEN \E p \in DOMAIN person_ids \cap d.pad_people,
                  doc \in DOMAIN doc_ids \cap d.pad_documents :
                 /\ edges' = CreateEdges(edges, edge_counter,
                               <<NewEdge(edge_type, "PERSON", person_ids[p],
                                         "DOC", doc_ids[doc])>>)
                 /\ edge_counter' = edge_counter + 1
          ELSE UNCHANGED <<edges, edge_counter>>
  /\ UNCHANGED <<config, late_vars, pc, error, org_vars, doc_vars, comm_vars,
                 topics, topic_counter, generated_topics, ctx_topics>>

\* The edges returned whole once the quota is reached.
TruncateEdges_KeepAll ==
  /\ pc = "pad_edges"
  /\ Len(edges) >= config.knowledge_graph_edges
  /\ pc' = "register_topics"
  /\ UNCHANGED <<config, late_vars, error, org_vars, doc_vars, comm_vars, kg_vars>>

\* _generate_edges: return edges[:knowledge_graph_edges]
TruncateEdges ==
  /\ pc = "pad_edges"
  /\ Len(edges) >= config.knowledge_graph_edges
  /\ edges' = SubSeq(edges, 1, config.knowledge_graph_edges)
  /\ pc' = "register_topics"
  /\ UNCHANGED <<config, late_vars, error, org_vars, doc_vars, comm_vars,
                 topics, topic_counter, edge_counter, generated_topics, ctx_topics>>

\* ContextManager.register_entity('topic', topic_id, topic) for each topic.
RECURSIVE RegisterTopicsFrom(_, _, _)
RegisterTopicsFrom(reg, tps, k) ==
  IF k > Len(tps) THEN reg
  ELSE RegisterTopicsFrom(Put(reg, tps[k].topic_id, tps[k]), tps, k + 1)

\* generate: the topics are registered and kept (the overlaps, which read
\* the registries and write none, are left out).
RegisterTopics ==
  /\ pc = "register_topics"
  /\ ctx_topics' = RegisterTopicsFrom(ctx_topics, topics, 1)
  /\ generated_topics' = topics
  /\ pc' = "kg_done"
  /\ UNCHANGED <<config, late_vars, error, org_vars, doc_vars, comm_vars,
                 topics, topic_counter, edges, edge_counter>>

(***************************************************************************)
(* Referential integrity (ContextManager.ensure_referential_integrity).    *)
(***************************************************************************)
\* ValidationResult.add_error
add_error(result, message) ==
  [result EXCEPT !.errors = Append(@, message), !.is_valid = FALSE]

\* A result whose warnings count against it too.
add_warning_Invalid(result, message) ==
  [result EXCEPT !.warnings = Append(@, message), !.is_valid = FALSE]

\* ValidationResult.add_warning
add_warning(result, message) ==
  [result EXCEPT !.warnings = Append(@, message)]

\* The result after the findings of a list have been added in order; a
\* finding is a pair of its kind and its message.
RECURSIVE AddFindings(_, _, _)
AddFindings(result, findings, k) ==
  IF k > Len(findings) THEN result
  ELSE AddFindings(IF findings[k][1] = "error"
                   THEN add_error(result, findings[k][2])
                   ELSE add_warning(result, findings[k][2]),
                   findings, k + 1)

\* A variant that looks every manager_id up, None included.
PersonFindings_NoneLookedUp(person) ==
  IF person.manager_id \notin DOMAIN ctx_people
  THEN << <<"error", <<"manager_id", person.person_id, person.manager_id>> >> >>
  ELSE <<>>

\* ensure_referential_integrity: "Validate person references" for one person.
PersonFindings(person) ==
  IF person.manager_id # NoneId /\ person.manager_id \notin DOMAIN ctx_people
  THEN << <<"error", <<"manager_id", person.person_id, person.manager_id>> >> >>
  ELSE <<>>

\* ensure_referential_integrity: "Validate document references" for one
\* document: the author, then each co-author, then each related document.
DocumentFindings(document) ==
  (IF document.author_person_id \notin DOMAIN ctx_people
   THEN << <<"error", <<"author_person_id", document.doc_id,
                        document.author_person_id>> >> >>
   ELSE <<>>)
  \o Flatten([k \in DOMAIN document.co_authors |->
                IF document.co_authors[k] \notin DOMAIN ctx_people
                THEN << <<"error", <<"co_author", document.doc_id,
                                     document.co_authors[k]>> >> >>
                ELSE <<>>])
  \o Flatten([k \in DOMAIN document.related_doc_ids |->
                IF document.related_doc_ids[k] \notin DOMAIN ctx_documents
                THEN << <<"warning", <<"related_doc", document.doc_id,
                                       document.related_doc_ids[k]>> >> >>
                ELSE <<>>])

\* ensure_referential_integrity: the findings in the order they are made.
IntegrityFindings ==
  Flatten([i \in DOMAIN AllPeople |-> PersonFindings(AllPeople[i])])
    \o Flatten([i \in DOMAIN RegisteredDocuments |->
                  DocumentFindings(RegisteredDocuments[i])])

\* ensure_referential_integrity, called on the registry as it is when the
\* last builder has finished.
EnsureReferentialIntegrity ==
  /\ pc = "validate"
  /\ validation' = AddFindings(NewValidationResult, IntegrityFindings, 1)
  /\ pc' = "validated"
  /\ UNCHANGED <<config, error, org_vars, doc_vars, comm_vars, kg_vars, xref_vars,
                 config_source, monitor_vars, first_run, stage_vars>>

(***************************************************************************)
(* ContextManager: cross references between entities.                      *)
(***************************************************************************)

\* cross_references[entity_id].add(related_entity_id) on the defaultdict(set):
\* a missing key is created with an empty set first.
AddToSet(refs, entity_id, related_entity_id) ==
  [k \in (DOMAIN refs) \cup {entity_id} |->
     IF k = entity_id
       THEN (IF k \in DOMAIN refs THEN refs[k] ELSE {}) \cup {related_entity_id}
       ELSE refs[k]]

\* A variant that records the first direction only.
AddReference_OneWay(refs, entity_id, related_entity_id) ==
  AddToSet(refs, entity_id, related_entity_id)

\* add_cross_reference: both directions are recorded.
AddReference(refs, entity_id, related_entity_id) ==
  AddToSet(AddToSet(refs, entity_id, related_entity_id), related_entity_id, entity_id)

\* get_cross_references: dict.get(entity_id, set()), which adds no key.
GetReferences(refs, entity_id) ==
  IF entity_id \in DOMAIN refs THEN refs[entity_id] ELSE {}

\* The ids the calls are made with.
XrefIds == {PersonId(0), PersonId(1), DocId(1), ThreadId(1)}

add_cross_reference ==
  /\ pc = "cross_references"
  /\ \E entity_id \in XrefIds, related_entity_id \in XrefIds :
       /\ cross_references' = AddReference(cross_references, entity_id, related_entity_id)
       /\ xref_call' = [op |-> "add", entity_id |-> entity_id, returned |-> {}]
  /\ UNCHANGED <<config, pc, error, org_vars, doc_vars, comm_vars, kg_vars, validation,
                 config_source, monitor_vars, first_run, stage_vars>>

get_cross_references ==
  /\ pc = "cross_references"
  /\ \E entity_id \in XrefIds :
       xref_call' = [op |-> "get", entity_id |-> entity_id,
                     returned |-> GetReferences(cross_references, entity_id)]
  /\ UNCHANGED <<config, pc, error, org_vars, doc_vars, comm_vars, kg_vars, validation,
                 cross_references, config_source, monitor_vars, first_run, stage_vars>>

(***************************************************************************)
(* ConfigurationManager: loading the configuration.  A dictionary value is *)
(* <<v>> when its key is present and <<>> when it is absent; dates are day *)
(* numbers.                                                                *)
(***************************************************************************)

\* GenerationConfig(): the defaults of settings.py, as far as the builders
\* read them.
DefaultConfig ==
  [employee_count |-> 25, manager_count |-> 3, teams |-> DefaultTeams,
   documents |-> 160, chat_threads |-> 220, knowledge_graph_edges |-> 2500]

\* GenerationConfig.to_dict of the defaults: start_date 2024-01-01 is before
\* end_date 2025-10-24.
DefaultDict ==
  [employee_count |-> <<DefaultConfig.employee_count>>,
   teams |-> <<DefaultConfig.teams>>,
   documents |-> <<DefaultConfig.documents>>,
   start_date |-> <<1>>, end_date |-> <<2>>]

\* dict.get(key, default)
Get(value, default) == IF value = <<>> THEN default ELSE value[1]

\* _apply_environment_overrides: a variable that is set replaces the value.
ApplyEnvironmentOverrides(config_data, environ) ==
  [config_data EXCEPT
     !.employee_count = IF environ.DATASET_EMPLOYEE_COUNT = <<>>
                          THEN @ ELSE environ.DATASET_EMPLOYEE_COUNT,
     !.documents = IF environ.DATASET_DOCUMENT_COUNT = <<>>
                     THEN @ ELSE environ.DATASET_DOCUMENT_COUNT]

\* A variant that accepts every dictionary.
ValidateConfig_Anything(config_data) == TRUE

\* _validate_config: TRUE when it returns, FALSE when it raises ValueError.
ValidateConfig(config_data) ==
  /\ ~(Get(config_data.employee_count, 0) < 1)
  /\ Get(config_data.teams, <<>>) # <<>>
  /\ ~(Get(config_data.documents, 0) < 1)
  /\ ~(Get(config_data.start_date, DefaultDict.start_date[1])
         >= Get(config_data.end_date, DefaultDict.end_date[1]))

\* _dict_to_config: the keys that are present replace the defaults; the
\* temporal section is not copied.
DictToConfig(config_data) ==
  [DefaultConfig EXCEPT
     !.employee_count = Get(config_data.employee_count, @),
     !.teams = Get(config_data.teams, @),
     !.documents = Get(config_data.documents, @)]

\* load_config with a config_path that exists: _load_from_file.
LoadFromFile ==
  /\ pc = "load_config"
  /\ config_source.path_exists
  /\ LET config_data ==
           ApplyEnvironmentOverrides(config_source.file, config_source.environ)
     IN IF ValidateConfig(config_data)
          THEN /\ config' = DictToConfig(config_data)
               /\ pc' = "start"
               /\ error' = error
          ELSE /\ pc' = "rejected"
               /\ error' = "ValueError"
               /\ config' = config
  /\ UNCHANGED <<late_vars, org_vars, doc_vars, comm_vars, kg_vars>>

\* load_config without a file: _create_default_config.
CreateDefaultConfig ==
  /\ pc = "load_config"
  /\ ~config_source.path_exists
  /\ config' = DictToConfig(ApplyEnvironmentOverrides(DefaultDict, config_source.environ))
  /\ pc' = "start"
  /\ UNCHANGED <<error, late_vars, org_vars, doc_vars, comm_vars, kg_vars>>

(***************************************************************************)
(* A second run of the pipeline with the same configuration: a new         *)
(* SyntheticDatasetGenerator with a new context and new generators, each   *)
(* with its own random.Random() (no seed is passed anywhere and set_seed   *)
(* is never called).                                                       *)
(***************************************************************************)
RunAgain ==
  /\ pc = "org_done"
  /\ ~first_run.done
  /\ first_run' = [done |-> TRUE, people |-> people, managers |-> ctx_managers]
  /\ people' = <<>>
  /\ managers' = {}
  /\ ctx_people' = <<>>
  /\ people_by_team' = [t \in TeamNames |-> <<>>]
  /\ ctx_managers' = <<>>
  /\ pc' = "start"
  /\ UNCHANGED <<config, error, doc_vars, comm_vars, kg_vars, validation, xref_vars,
                 config_source, monitor_vars, stage_vars>>

(***************************************************************************)
(* Starter packs (main.py) and the Permission Builder                      *)
(* (generators/permissions.py).                                            *)
(***************************************************************************)
\* str.upper of a team name
Upper ==
  ("Marketing" :> "MARKETING") @@ ("Product" :> "PRODUCT") @@
  ("Engineering" :> "ENGINEERING") @@ ("Finance" :> "FINANCE") @@ ("HR" :> "HR")

\* str.title of a lowercased team name: "hr" becomes "Hr".
Title ==
  ("marketing" :> "Marketing") @@ ("product" :> "Product") @@
  ("engineering" :> "Engineering") @@ ("finance" :> "Finance") @@ ("hr" :> "Hr")

\* f"PACK_{team.upper()}_{n:03d}"
PackId(team, n) == <<"PACK_", Upper[team], "_">> \o ZeroPad(n, 3)

\* models.permissions.ACL
ACL(resource_type, resource_id, allow_teams, allow_person_ids, deny_person_ids, acl_warning) ==
  [resource_type |-> resource_type, resource_id |-> resource_id,
   allow_teams |-> allow_teams, allow_person_ids |-> allow_person_ids,
   deny_person_ids |-> deny_person_ids, acl_warning |-> acl_warning]

\* The outcomes of random.sample(population of n, k) the stages after the
\* knowledge graph are explored with: the first k in order, the last k in
\* reverse order.
LateSamples(orders, n, k) ==
  {pos \in {[i \in 1..k |-> i], [i \in 1..k |-> n + 1 - i]} :
     \/ "first" \in orders /\ pos = [i \in 1..k |-> i]
     \/ "last" \in orders /\ pos = [i \in 1..k |-> n + 1 - i]}

\* The draws of the stages after the knowledge graph.
LateDraws == [orders |-> {"first", "last"}]

\* sorted(team_people, key=lambda p: p.tenure_months, reverse=True)[:k]: the
\* sort is stable, people of equal tenure keep their order.
RECURSIVE TopByTenure(_, _)
TopByTenure(team_people, k) ==
  IF k = 0 \/ team_people = <<>> THEN <<>>
  ELSE LET best == CHOOSE i \in DOMAIN team_people :
                     /\ \A j \in DOMAIN team_people :
                          team_people[j].tenure_months <= team_people[i].tenure_months
                     /\ \A j \in 1..(i - 1) :
                          team_people[j].tenure_months < team_people[i].tenure_months
           others == [j \in 1..(Len(team_people) - 1) |->
                        IF j < best THEN team_people[j] ELSE team_people[j + 1]]
       IN <<team_people[best]>> \o TopByTenure(others, k - 1)

\* _generate_starter_packs: the pack of the team at position i (1-based) of
\* the configured list, its documents sampled at positions pos.
StarterPack(i, pos) ==
  LET team == config.teams[i]
      team_docs == SelectSeq(RegisteredDocuments, LAMBDA doc : doc.team = team)
      selected_docs == Pick(team_docs, pos)
      experts == TopByTenure(get_people_by_team(team), 3)
  IN [pack_id |-> PackId(team, i), team |-> team,
      doc_ids |-> [k \in DOMAIN selected_docs |-> selected_docs[k].doc_id],
      experts |-> [k \in DOMAIN experts |-> experts[k].person_id]]

\* The sample sizes of the starter packs: min(6, len(team_docs)).
PackSampleSize(i) ==
  Min2(6, Len(SelectSeq(RegisteredDocuments, LAMBDA doc : doc.team = config.teams[i])))

\* generate_all: starter_packs = self._generate_starter_packs()
GenerateStarterPacks(d) ==
  /\ pc = "starter_packs"
  /\ \E order \in [DOMAIN config.teams -> d.orders] :
       starter_packs' =
         [i \in DOMAIN config.teams |->
            StarterPack(i, CHOOSE pos \in LateSamples({order[i]},
                             Len(SelectSeq(RegisteredDocuments,
                                           LAMBDA doc : doc.team = config.teams[i])),
                             PackSampleSize(i)) : TRUE)]
  /\ pc' = "document_permissions"
  /\ UNCHANGED <<config, error, org_vars, doc_vars, comm_vars, kg_vars, validation,
                 xref_vars, config_source, monitor_vars, first_run, meetings, meeting_counter, acls,
                 user_events>>

\* The Finance-only entries of the sampled documents.
FinanceAcls(restricted_docs) ==
  [k \in DOMAIN restricted_docs |->
     ACL("DOC", restricted_docs[k].doc_id, <<"Finance">>, <<>>, <<>>, FALSE)]

\* A variant of _create_document_acl that shares an internal document with
\* every configured team.
CreateDocumentAcl_Shared(document) ==
  ACL("DOC", document.doc_id, config.teams, <<>>, <<>>, FALSE)

\* _create_document_acl
CreateDocumentAcl(document) ==
  IF document.visibility = "public"
    THEN ACL("DOC", document.doc_id, config.teams, <<>>, <<>>, FALSE)
  ELSE IF document.visibility = "internal"
    THEN ACL("DOC", document.doc_id, <<document.team>>, ctx_managers, <<>>, FALSE)
  ELSE ACL("DOC", document.doc_id, <<document.team>>, <<>>, <<>>, FALSE)

\* _generate_document_permissions
GenerateDocumentPermissions(d) ==
  /\ pc = "document_permissions"
  /\ LET docs == RegisteredDocuments
         finance_docs == SelectSeq(docs, LAMBDA doc : doc.team = "Finance")
         high_conf_docs == SelectSeq(docs, LAMBDA doc : doc.confidentiality = "high")
         population == IF Len(finance_docs) >= 10 THEN finance_docs
                       ELSE finance_docs \o high_conf_docs
     IN \E pos \in LateSamples(d.orders, Len(population), Min2(10, Len(population))) :
          LET restricted_docs == Pick(population, pos)
              other_docs == SelectSeq(docs, LAMBDA doc : doc \notin Range(restricted_docs))
          IN acls' = acls \o FinanceAcls(restricted_docs)
                          \o [k \in DOMAIN other_docs |-> CreateDocumentAcl(other_docs[k])]
  /\ pc' = "thread_permissions"
  /\ UNCHANGED <<config, error, org_vars, doc_vars, comm_vars, kg_vars, validation,
                 xref_vars, config_source, monitor_vars, first_run, meetings, meeting_counter,
                 starter_packs, user_events>>

\* thread.channel, as words joined by hyphens: the two topic tags of the
\* thread, or "random".
Channel(thread) ==
  IF thread.topic_tags = << <<"random">>, <<"casual">> >> THEN <<"random">>
  ELSE thread.topic_tags[1] \o thread.topic_tags[2]

\* The entry of one thread, as a list of no or one ACL.
ThreadAcl(thread) ==
  LET channel == Channel(thread)
      first_word == channel[1]
      team == IF first_word \in DOMAIN Title THEN Title[first_word] ELSE first_word
  IN IF "general" \in Range(channel)
       THEN IF team \in Range(config.teams)
              THEN <<ACL("THREAD", thread.thread_id, <<team>>, <<>>, <<>>, FALSE)>>
              ELSE <<>>
     ELSE IF "cross-team" \in Range(channel)
       THEN <<ACL("THREAD", thread.thread_id, config.teams, <<>>, <<>>, FALSE)>>
     ELSE IF "project" \in Range(channel)
       THEN <<ACL("THREAD", thread.thread_id, <<>>, thread.participants, <<>>, FALSE)>>
     ELSE IF channel = <<"random">>
       THEN <<ACL("THREAD", thread.thread_id, config.teams, <<>>, <<>>, FALSE)>>
     ELSE <<>>

\* _generate_thread_permissions
GenerateThreadPermissions ==
  /\ pc = "thread_permissions"
  /\ acls' = acls \o Flatten([k \in DOMAIN RegisteredThreads |->
                                ThreadAcl(RegisteredThreads[k])])
  /\ pc' = "starter_pack_permissions"
  /\ UNCHANGED <<config, error, org_vars, doc_vars, comm_vars, kg_vars, validation,
                 xref_vars, config_source, monitor_vars, first_run, meetings, meeting_counter,
                 starter_packs, user_events>>

\* _generate_starter_pack_permissions
GenerateStarterPackPermissions ==
  /\ pc = "starter_pack_permissions"
  /\ acls' = acls \o [i \in DOMAIN config.teams |->
                        ACL("PACK", PackId(config.teams[i], 1),
                            <<config.teams[i], "HR">>, ctx_managers, <<>>, FALSE)]
  /\ pc' = "edge_case_permissions"
  /\ UNCHANGED <<config, error, org_vars, doc_vars, comm_vars, kg_vars, validation,
                 xref_vars, config_source, monitor_vars, first_run, meetings, meeting_counter,
                 starter_packs, user_events>>

\* The warning entries of the sampled documents.
WarningAcls(docs) ==
  [k \in DOMAIN docs |-> ACL("DOC", docs[k].doc_id, <<docs[k].team>>, <<>>, <<>>, TRUE)]

\* _generate_edge_case_permissions
GenerateEdgeCasePermissions(d) ==
  /\ pc = "edge_case_permissions"
  /\ LET docs == RegisteredDocuments
         internal_docs == SelectSeq(docs, LAMBDA doc : doc.visibility = "internal")
         restricted_docs == SelectSeq(docs, LAMBDA doc : doc.visibility = "restricted")
         sensitive_docs == SelectSeq(docs, LAMBDA doc : doc.confidentiality = "high")
         new_hires == SelectSeq(AllPeople, LAMBDA p : p.tenure_months < 6)
     IN \E order \in [1..3 -> d.orders] :
          LET mis_permissioned ==
                IF Len(internal_docs) >= 3
                  THEN Pick(internal_docs,
                            CHOOSE pos \in LateSamples({order[1]}, Len(internal_docs), 3) : TRUE)
                  ELSE <<>>
              chat_referenced ==
                IF restricted_docs # <<>>
                  THEN Pick(restricted_docs,
                            CHOOSE pos \in LateSamples({order[2]}, Len(restricted_docs),
                                                       Min2(2, Len(restricted_docs))) : TRUE)
                  ELSE <<>>
              deny ==
                IF sensitive_docs # <<>> /\ new_hires # <<>>
                  THEN LET sensitive_doc ==
                             IF order[3] = "first" THEN sensitive_docs[1]
                             ELSE sensitive_docs[Len(sensitive_docs)]
                       IN <<ACL("DOC", sensitive_doc.doc_id, <<sensitive_doc.team>>, <<>>,
                                [k \in 1..Min2(2, Len(new_hires)) |-> new_hires[k].person_id],
                                FALSE)>>
                  ELSE <<>>
          IN acls' = acls \o WarningAcls(mis_permissioned)
                          \o WarningAcls(chat_referenced) \o deny
  /\ pc' = "perm_done"
  /\ UNCHANGED <<config, error, org_vars, doc_vars, comm_vars, kg_vars, validation,
                 xref_vars, config_source, monitor_vars, first_run, meetings, meeting_counter,
                 starter_packs, user_events>>

\* get_permission_summary: scenarios.finance_restricted
summary_finance_restricted ==
  Len(SelectSeq(acls, LAMBDA acl : acl.resource_type = "DOC"
                                     /\ acl.allow_teams = <<"Finance">>))

\* get_permission_summary: scenarios.mis_permissioned
summary_mis_permissioned == Len(SelectSeq(acls, LAMBDA acl : acl.acl_warning))

(***************************************************************************)
(* Meeting Builder (generators/meetings.py).  The weekly briefs are text   *)
(* from fixed tables and are left out.                                     *)
(***************************************************************************)
\* MeetingGenerator.meeting_types: attendee_count
meeting_types ==
  [standup |-> [attendee_count |-> 3..6],
   project |-> [attendee_count |-> 4..8],
   cross_team |-> [attendee_count |-> 5..10],
   leadership |-> [attendee_count |-> 3..8],
   all_hands |-> [attendee_count |-> 15..25]]

\* _generate_meetings: target_count
target_count == 30

\* The meetings gone through: the first MaxMeetings of the target_count.
MaxMeetings == 2

\* The draws of the Meeting Builder.
MeetDraws ==
  [meeting_types |-> {"standup", "cross_team", "leadership"},
   attendee_counts |-> {3, 5},
   team_counts |-> {2, 4},
   picks |-> {"first", "last"},
   orders |-> {"first"}]

Max2(a, b) == IF a > b THEN a ELSE b

\* meeting_id = f"MEET_{self.meeting_counter:03d}"
MeetingId(counter) == FormatId("MEET_", counter, 3)

\* models.core.Meeting (the fields read from the registry)
Meeting(meeting_id, meeting_type, attendees) ==
  [meeting_id |-> meeting_id, meeting_type |-> meeting_type,
   attendees |-> [i \in DOMAIN attendees |-> attendees[i].person_id]]

\* self.random_choice(self.config.organization.teams), among the picks
TeamPicks(d) ==
  {config.teams[i] : i \in {k \in DOMAIN config.teams :
     \/ "first" \in d.picks /\ k = 1
     \/ "last" \in d.picks /\ k = Len(config.teams)}}

\* self.random.sample(population, min(k, len(population)))
CappedSamples(d, population, k) ==
  {Pick(population, pos) :
     pos \in LateSamples(d.orders, Len(population), Min2(k, Len(population)))}

\* The leadership pool: the registered managers, then the people of more than
\* 24 months of tenure, each person once.
LeadershipPool ==
  LET all_people == AllPeople
      are_managers == SelectSeq(all_people, LAMBDA p : p.person_id \in Range(ctx_managers))
      senior_people == SelectSeq(all_people, LAMBDA p : p.tenure_months > 24)
  IN FirstOccurrences(are_managers \o senior_people)

\* The teams of a cross-team meeting and the attendees sampled from them, or
\* "ValueError" when more teams are sampled than are configured.
RECURSIVE TeamAttendees(_, _, _, _)
TeamAttendees(d, teams_involved, people_per_team, i) ==
  IF i > Len(teams_involved) THEN {<<>>}
  ELSE LET team_people == get_people_by_team(teams_involved[i])
           mine == IF team_people = <<>> THEN {<<>>}
                   ELSE CappedSamples(d, team_people, people_per_team)
       IN {a \o rest : a \in mine,
                       rest \in TeamAttendees(d, teams_involved, people_per_team, i + 1)}

\* _select_meeting_attendees: the lists the draws allow.
SelectMeetingAttendees(d, meeting_type, attendee_count) ==
  LET all_people == AllPeople
  IN IF meeting_type = "standup"
       THEN UNION {CappedSamples(d, get_people_by_team(team), attendee_count) :
                     team \in TeamPicks(d)}
     ELSE IF meeting_type = "project"
       THEN UNION {
         LET primary_people == get_people_by_team(primary_team)
             primary_count == (attendee_count * 7) \div 10
             other_count == attendee_count - primary_count
             other_people == SelectSeq(all_people, LAMBDA p : p.team # primary_team)
             firsts == IF primary_people # <<>>
                         THEN CappedSamples(d, primary_people, primary_count)
                         ELSE {<<>>}
             seconds == IF other_people # <<>> /\ other_count > 0
                          THEN CappedSamples(d, other_people, other_count)
                          ELSE {<<>>}
         IN {a \o b : a \in firsts, b \in seconds} :
         primary_team \in TeamPicks(d)}
     ELSE IF meeting_type = "cross_team"
       THEN UNION {
         UNION {TeamAttendees(d, Pick(config.teams, pos),
                              Max2(1, attendee_count \div team_count), 1) :
                  pos \in LateSamples(d.orders, Len(config.teams), team_count)} :
         team_count \in {n \in (2..4) \cap d.team_counts : n <= Len(config.teams)}}
     ELSE IF meeting_type = "leadership"
       THEN CappedSamples(d, LeadershipPool, attendee_count)
     ELSE CappedSamples(d, all_people, attendee_count)

\* _create_meeting: a cross-team meeting for which more teams are sampled than
\* are configured raises ValueError in random.sample; a meeting without
\* attendees raises AttributeError in _generate_meeting_action_items, where
\* random_choice(attendees) is None.
CreateMeeting(d) ==
  /\ pc = "kg_done"
  /\ meeting_counter < Min2(target_count, MaxMeetings)
  /\ meeting_counter' = meeting_counter + 1
  /\ \E meeting_type \in (DOMAIN meeting_types) \cap d.meeting_types :
       \/ /\ meeting_type = "cross_team"
          /\ \E team_count \in (2..4) \cap d.team_counts : team_count > Len(config.teams)
          /\ pc' = "crashed"
          /\ error' = "ValueError"
          /\ meetings' = meetings
       \/ \E attendee_count \in meeting_types[meeting_type].attendee_count
                                  \cap d.attendee_counts :
            \E attendees \in SelectMeetingAttendees(d, meeting_type, attendee_count) :
              IF attendees = <<>>
                THEN /\ pc' = "crashed"
                     /\ error' = "AttributeError"
                     /\ meetings' = meetings
                ELSE /\ meetings' = Append(meetings,
                                           Meeting(MeetingId(meeting_counter + 1),
                                                   meeting_type, attendees))
                     /\ UNCHANGED <<pc, error>>
  /\ UNCHANGED <<config, org_vars, doc_vars, comm_vars, kg_vars, validation, xref_vars,
                 config_source, monitor_vars, first_run, starter_packs, acls, user_events>>

\* MeetingGenerator.generate returns; generate_all goes on to the starter packs.
FinishMeetings ==
  /\ pc = "kg_done"
  /\ meeting_counter = Min2(target_count, MaxMeetings)
  /\ pc' = "starter_packs"
  /\ UNCHANGED <<config, error, org_vars, doc_vars, comm_vars, kg_vars, late_vars>>

(***************************************************************************)
(* User Event Builder (generators/user_events.py).  A persona's events are *)
(* drawn one by one; the sessions they are grouped in only shape the       *)
(* timestamps, which are drawn from a few instants.                        *)
(***************************************************************************)
\* UserEventGenerator.demo_personas: behavior_profile.preferred_resources
preferred_resources ==
  ("Maya Chen" :> <<"DOC", "TOPIC">>) @@
  ("Rahul Sharma" :> <<"DOC", "THREAD">>) @@
  ("Priya Patel" :> <<"PACK", "DOC">>)

\* generate: the share of a persona, 80 // len(demo_people)
target_events == 80

\* The events gone through per persona: the first MaxPersonaEvents of its share.
MaxPersonaEvents == 2

\* The draws of the User Event Builder.
EventDraws ==
  [event_types |-> {"VIEWED", "SEARCHED"},
   resource_types |-> {"DOC", "PACK", "THREAD", "TOPIC"},
   timestamps |-> {1, 2},
   picks |-> {"first"}]

\* event_id = f"EVENT_{self.event_counter:04d}"
EventId(counter) == FormatId("EVENT_", counter, 4)

\* models.events.UserEvent
UserEvent(event_id, person_id, event_type, resource_type, resource_id, timestamp) ==
  [event_id |-> event_id, person_id |-> person_id, event_type |-> event_type,
   resource_type |-> resource_type, resource_id |-> resource_id, timestamp |-> timestamp]

\* generate: the registered people whose full_name is a demo persona's, with
\* the persona's name.  The names the Organization Builder generates differ
\* from the demo personas' names, so these are the demo personas it created.
DemoPeople ==
  LET all_people == AllPeople
      found == SelectSeq([i \in DOMAIN all_people |-> i],
                         LAMBDA i : i \in DOMAIN demo_personas)
  IN [k \in DOMAIN found |-> [name |-> demo_personas[found[k]].name,
                               person |-> all_people[found[k]]]]

\* self.random_choice(items), among the picks: None (<<>>) for an empty list.
PickedOf(d, items) ==
  IF items = <<>> THEN {<<>>}
  ELSE {<<items[i]>> : i \in {k \in DOMAIN items :
          \/ "first" \in d.picks /\ k = 1
          \/ "last" \in d.picks /\ k = Len(items)}}

\* list(self.context.topics.values()): the topics in registration order.
RegisteredTopics ==
  LET registered == SelectSeq(topics, LAMBDA t : t.topic_id \in DOMAIN ctx_topics)
  IN [i \in DOMAIN registered |-> ctx_topics[registered[i].topic_id]]

\* _select_resource: the outcomes the draws allow: a resource, nothing (None,
\* None), or the AttributeError of dereferencing the choice from an empty list
\* of documents or threads.
Resource(resource_type, resource_id) ==
  [outcome |-> "resource", resource_type |-> resource_type, resource_id |-> resource_id]

NoResource(outcome) == [outcome |-> outcome, resource_type |-> "", resource_id |-> <<>>]

SelectResource(d, demo) ==
  UNION {
    IF resource_type = "DOC"
      THEN {IF doc = <<>> THEN NoResource("AttributeError")
            ELSE Resource("DOC", doc[1].doc_id) :
              doc \in PickedOf(d, RegisteredDocuments)}
    ELSE IF resource_type = "THREAD"
      THEN {IF thread = <<>> THEN NoResource("AttributeError")
            ELSE Resource("THREAD", thread[1].thread_id) :
              thread \in PickedOf(d, RegisteredThreads)}
    ELSE IF resource_type = "TOPIC"
      THEN {IF topic = <<>> THEN NoResource("none")
            ELSE Resource("TOPIC", topic[1].topic_id) :
              topic \in PickedOf(d, RegisteredTopics)}
    ELSE {Resource("PACK", PackId(demo.person.team, 1))} :
    resource_type \in Range(preferred_resources[demo.name]) \cap d.resource_types}

\* _create_user_event: what one event of a persona may be.
EventChoices(d, demo) ==
  {[event_type |-> "SEARCHED", timestamp |-> timestamp,
    resource |-> Resource("QUERY", <<"SEARCH_QUERY">>)] :
     timestamp \in d.timestamps, event_type \in {"SEARCHED"} \cap d.event_types}
  \cup
  {[event_type |-> event_type, timestamp |-> timestamp, resource |-> resource] :
     event_type \in {"VIEWED", "CLICKED"} \cap d.event_types,
     timestamp \in d.timestamps,
     resource \in SelectResource(d, demo)}

\* events.sort(key=lambda e: e.timestamp): a stable sort.
RECURSIVE SortByTimestamp(_)
SortByTimestamp(events) ==
  IF events = <<>> THEN <<>>
  ELSE LET sorted == SortByTimestamp(SubSeq(events, 1, Len(events) - 1))
           last == events[Len(events)]
           before == SelectSeq(sorted, LAMBDA ev : ev.timestamp <= last.timestamp)
           after == SelectSeq(sorted, LAMBDA ev : ev.timestamp > last.timestamp)
       IN before \o <<last>> \o after

\* A variant that returns the events in generation order.
SortByTimestamp_Unsorted(events) == events

\* target_events_per_persona = 80 // len(demo_people) if demo_people else 0,
\* as far as the events of a persona are gone through.
PersonaShare(found) ==
  IF found = 0 THEN 0 ELSE Min2(target_events \div found, MaxPersonaEvents)

\* A variant that keeps every event of the persona's sessions.
Truncated_KeepAll(events, target) == events

\* events[:target_count]
Truncated(events, target) == SubSeq(events, 1, Min2(target, Len(events)))

\* UserEventGenerator.generate: the sessions of every demo persona found go on
\* until its share of events is reached, the last of them creating one event
\* beyond it; an event that selects no resource is dropped, the events of the
\* persona are cut to its share, and the events of all personas are returned
\* sorted by timestamp.
GenerateUserEvents(d) ==
  /\ pc = "perm_done"
  /\ LET demo_people == DemoPeople
         share == PersonaShare(Len(demo_people))
         slots == share + 1
         persona(k) == ((k - 1) \div slots) + 1
         count == Len(demo_people) * slots
     IN \E drawn \in Choices([k \in 1..count |-> EventChoices(d, demo_people[persona(k)])],
                             count) :
          IF \E k \in 1..count : drawn[k].resource.outcome = "AttributeError"
            THEN /\ pc' = "crashed"
                 /\ error' = "AttributeError"
                 /\ user_events' = user_events
            ELSE LET created == [k \in 1..count |->
                                   UserEvent(EventId(k),
                                             demo_people[persona(k)].person.person_id,
                                             drawn[k].event_type,
                                             drawn[k].resource.resource_type,
                                             drawn[k].resource.resource_id,
                                             drawn[k].timestamp)]
                     persona_events(j) ==
                       Truncated(SelectSeq(SubSeq(created, (j - 1) * slots + 1, j * slots),
                                           LAMBDA ev : ev.resource_type # ""),
                                 share)
                 IN /\ user_events' =
                         SortByTimestamp(Flatten([j \in DOMAIN demo_people |->
                                                    persona_events(j)]))
                    /\ pc' = "validate"
                    /\ error' = error
  /\ UNCHANGED <<config, org_vars, doc_vars, comm_vars, kg_vars, validation, xref_vars,
                 config_source, monitor_vars, first_run, meetings, meeting_counter, starter_packs, acls>>

(***************************************************************************)
(* The registry called directly: register_entity and                       *)
(* get_related_documents of ContextManager, in any order.                  *)
(***************************************************************************)
\* The registrations of one team the registry is gone through up to.
MaxRegisterCalls == 3

\* The people the registry is called with: a manager, a new hire, and the
\* new hire after a move to another team.
RegistryPeople ==
  {Person(PersonId(0), RoleTitle("Product Manager"), "Product", 12),
   Person(PersonId(1), RoleTitle("New Hire"), "Finance", 3),
   Person(PersonId(1), RoleTitle("New Hire"), "Marketing", 3)}

\* The documents the registry is called with: two documents, and the first
\* one with another tag.
RegistryDocuments ==
  {Document(DocId(1), "Product", PersonId(0), <<>>,
            << <<"pricing", "strategy">> >>, "internal", "medium"),
   Document(DocId(1), "Product", PersonId(0), <<>>,
            << <<"roadmap">> >>, "internal", "medium"),
   Document(DocId(2), "Finance", PersonId(1), <<>>,
            << <<"pricing", "strategy">>, <<"budget">> >>, "public", "low")}

\* The topics the registry is called with.
RegistryTopics ==
  {Topic(TopicId(1), <<"Pricing", "Strategy">>), Topic(TopicId(2), <<"budget">>)}

\* register_entity('person', entity.person_id, entity)
RegisterPersonEntity ==
  /\ pc = "registry"
  /\ \E entity \in RegistryPeople :
       /\ Len(people_by_team[entity.team]) < MaxRegisterCalls
       /\ LET reg == register_person(
                       [people |-> ctx_people, people_by_team |-> people_by_team,
                        managers |-> ctx_managers], entity.person_id, entity)
          IN /\ ctx_people' = reg.people
             /\ people_by_team' = reg.people_by_team
             /\ ctx_managers' = reg.managers
       /\ xref_call' = [op |-> "register", entity_id |-> entity.person_id, returned |-> {}]
  /\ UNCHANGED <<config, pc, error, people, managers, doc_vars, comm_vars, kg_vars,
                 validation, cross_references, config_source, monitor_vars, first_run, stage_vars>>

\* register_entity('document', entity.doc_id, entity)
RegisterDocumentEntity ==
  /\ pc = "registry"
  /\ \E entity \in RegistryDocuments :
       /\ LET reg == register_document(
                       [documents |-> ctx_documents, document_tags |-> document_tags],
                       entity.doc_id, entity)
          IN /\ ctx_documents' = reg.documents
             /\ document_tags' = reg.document_tags
       /\ xref_call' = [op |-> "register", entity_id |-> entity.doc_id, returned |-> {}]
  /\ UNCHANGED <<config, pc, error, org_vars, documents, doc_counter, doc_team, doc_i,
                 comm_vars, kg_vars, validation, cross_references, config_source, monitor_vars,
                 first_run, stage_vars>>

\* register_entity('topic', entity.topic_id, entity)
RegisterTopicEntity ==
  /\ pc = "registry"
  /\ \E entity \in RegistryTopics :
       /\ ctx_topics' = Put(ctx_topics, entity.topic_id, entity)
       /\ xref_call' = [op |-> "register", entity_id |-> entity.topic_id, returned |-> {}]
  /\ UNCHANGED <<config, pc, error, org_vars, doc_vars, comm_vars, topics, topic_counter,
                 edges, edge_counter, generated_topics, validation, cross_references,
                 config_source, monitor_vars, first_run, stage_vars>>

\* name.lower(), word by word.
LowerName(name) == [i \in DOMAIN name |-> LowerWord(name[i])]

\* _find_topic_by_name: the ids of the registered topics of that name,
\* whatever the case (the topics of the model have no alias).
FindTopicByName(name) ==
  {id \in DOMAIN ctx_topics : LowerName(ctx_topics[id].name) = LowerName(name)}

\* A variant in which the topic index holds a document for every topic.
TopicDocuments_Linked(topic_id) == {DocId(2)}

\* self.topic_documents.get(topic_id, set()): the index is created empty by
\* __init__ and no method writes it.
TopicDocuments(topic_id) == {}

\* The tag index after the body of get_related_documents: doc_ids is the set
\* the index holds for the tag (or a new set when the tag is absent), and
\* doc_ids.update(...) of a found topic writes into that set.
TagIndexAfterLookup(index, topic) ==
  IF topic \in DOMAIN index /\ FindTopicByName(topic) # {}
    THEN LET topic_id == CHOOSE id \in FindTopicByName(topic) : TRUE
         IN Put(index, topic, index[topic] \cup TopicDocuments(topic_id))
    ELSE index

\* The ids get_related_documents collects for the topic.
RelatedDocIds(index, topic) ==
  LET held == IF topic \in DOMAIN index THEN index[topic] ELSE {}
      linked == IF FindTopicByName(topic) = {} THEN {}
                ELSE TopicDocuments(CHOOSE id \in FindTopicByName(topic) : TRUE)
  IN held \cup linked

\* get_related_documents(topic, team, limit): a sample of min(limit, n) of
\* the registered documents found, of the team when one is given.
get_related_documents ==
  /\ pc = "registry"
  /\ \E topic \in {<<"pricing", "strategy">>, <<"budget">>, <<"roadmap">>, <<"sync">>},
        team \in {NoneTeam, "Product", "Finance"}, limit \in {1, 5} :
       LET found == {id \in RelatedDocIds(document_tags, topic) :
                       /\ id \in DOMAIN ctx_documents
                       /\ team # NoneTeam => ctx_documents[id].team = team}
       IN /\ document_tags' = TagIndexAfterLookup(document_tags, topic)
          /\ \E sample \in SUBSET found :
               /\ Cardinality(sample) = Min2(limit, Cardinality(found))
               /\ xref_call' = [op |-> "get_related_documents", entity_id |-> topic,
                                returned |-> sample]
  /\ UNCHANGED <<config, pc, error, org_vars, documents, doc_counter, doc_team, doc_i,
                 ctx_documents, comm_vars, kg_vars, validation, cross_references,
                 config_source, monitor_vars, first_run, stage_vars>>

(***************************************************************************)
(* The covenant PathwayMonitor (FinSight_Copilot, covenant/extractor.py):  *)
(* polling rounds over the *.json files of the watch directory.  A file is *)
(* its name and the financials extract_from_json reads from it, in         *)
(* millions.                                                               *)
(***************************************************************************)
\* The polling rounds gone through: as many as fit in the duration.
MaxPollRounds == 3

\* The covenant terms (the defaults of run_watcher); max_leverage_ratio is
\* 3.5, kept as the fraction 7/2.
covenant_terms ==
  [max_leverage_ratio |-> <<7, 2>>, min_coverage_ratio |-> 2, min_liquidity |-> 100]

\* The files that may appear in the watch directory: one within the terms,
\* one over the leverage limit, one under the liquidity floor.
PathwayFiles ==
  {[name |-> "compliant.json",
    financials |-> [total_debt |-> 100, ebitda |-> 100, interest_expense |-> 10,
                    cash_equivalents |-> 500]],
   [name |-> "leveraged.json",
    financials |-> [total_debt |-> 400, ebitda |-> 100, interest_expense |-> 10,
                    cash_equivalents |-> 500]],
   [name |-> "illiquid.json",
    financials |-> [total_debt |-> 100, ebitda |-> 100, interest_expense |-> 0,
                    cash_equivalents |-> 50]]}

\* CovenantMonitor.check_compliance: the tests that are breached.
\* lev = total_debt / ebitda if ebitda > 0 else 0, passed when lev <= 3.5;
\* cov = ebitda / interest_expense if interest_expense > 0 else 999, passed
\* when cov >= 2; liquidity passed when cash_equivalents >= 100.
BreachedTests(financials, terms) ==
  (IF /\ financials.ebitda > 0
      /\ financials.total_debt * terms.max_leverage_ratio[2]
           > terms.max_leverage_ratio[1] * financials.ebitda
     THEN {"leverage"} ELSE {})
  \cup
  (IF /\ financials.interest_expense > 0
      /\ financials.ebitda < terms.min_coverage_ratio * financials.interest_expense
     THEN {"coverage"} ELSE {})
  \cup
  (IF financials.cash_equivalents < terms.min_liquidity THEN {"liquidity"} ELSE {})

\* check_compliance: results['status'] and the tests collect_red_flags
\* turns into red flags.
check_compliance(financials, terms) ==
  [status |-> IF BreachedTests(financials, terms) = {} THEN "PASS" ELSE "BREACH",
   red_flags |-> BreachedTests(financials, terms)]

\* A variant of the bookkeeping of process_file that records the path
\* whatever the status.
ProcessedAfter_Always(was_processed, path, status) == was_processed \cup {path}

\* process_file: self.processed after a file was checked: the BREACH branch
\* returns before self.processed.add(filepath).
ProcessedAfter(was_processed, path, status) ==
  IF status = "BREACH" THEN was_processed ELSE was_processed \cup {path}

\* A *.json file is put into the watch directory while the monitor runs.
DropFile ==
  /\ pc \in {"monitor", "polling"}
  /\ \E f \in PathwayFiles \ watch_dir : watch_dir' = watch_dir \cup {f}
  /\ UNCHANGED <<config, pc, error, org_vars, doc_vars, comm_vars, kg_vars, validation,
                 xref_vars, config_source, first_run, stage_vars, processed,
                 pathway_results, yielded, pending, poll_round, monitor_call>>

\* monitor: a turn of the while loop starts: self.watch_dir.glob('*.json')
MonitorRound ==
  /\ pc = "monitor"
  /\ poll_round < MaxPollRounds
  /\ pending' = watch_dir
  /\ poll_round' = poll_round + 1
  /\ pc' = "polling"
  /\ UNCHANGED <<config, error, org_vars, doc_vars, comm_vars, kg_vars, validation,
                 xref_vars, config_source, first_run, stage_vars, watch_dir, processed,
                 pathway_results, yielded, monitor_call>>

\* monitor: result = self.process_file(f, extractor) for the next file of
\* the glob, yielded when it has red flags.
ProcessFile ==
  /\ pc = "polling"
  /\ \E f \in pending :
       /\ pending' = pending \ {f}
       /\ IF f.name \in processed
            THEN /\ monitor_call' = [path |-> f.name, returned |-> "None"]
                 /\ UNCHANGED <<processed, pathway_results, yielded>>
            ELSE LET results == check_compliance(f.financials, covenant_terms)
                 IN /\ pathway_results' =
                         Append(pathway_results, [path |-> f.name, status |-> results.status])
                    /\ processed' = ProcessedAfter(processed, f.name, results.status)
                    /\ yielded' = IF results.status = "BREACH" /\ results.red_flags # {}
                                    THEN Append(yielded, f.name) ELSE yielded
                    /\ monitor_call' = [path |-> f.name, returned |-> results.status]
  /\ UNCHANGED <<config, pc, error, org_vars, doc_vars, comm_vars, kg_vars, validation,
                 xref_vars, config_source, first_run, stage_vars, watch_dir, poll_round>>

\* monitor: the glob is gone through: time.sleep(3)
EndRound ==
  /\ pc = "polling"
  /\ pending = {}
  /\ pc' = "monitor"
  /\ UNCHANGED <<config, error, org_vars, doc_vars, comm_vars, kg_vars, validation,
                 xref_vars, config_source, first_run, stage_vars, monitor_vars>>

\* monitor: the duration is over.
MonitorDone ==
  /\ pc = "monitor"
  /\ poll_round = MaxPollRounds
  /\ pc' = "monitor_done"
  /\ UNCHANGED <<config, error, org_vars, doc_vars, comm_vars, kg_vars, validation,
                 xref_vars, config_source, first_run, stage_vars, monitor_vars>>

CreateDemoPersonas == CreateDemoPersonasFrom(WideOrgDraws)

GenerateSinglePerson == GenerateSinglePersonFrom(WideOrgDraws)

Next ==
  \/ CreateDemoPersonas
  \/ GenerateSinglePerson
  \/ AssignManagers
  \/ CreateTeamHistory
  \/ RegisterPeople

Spec == Init /\ [][Next]_vars

(***************************************************************************)
(* The Document Builder after an organization with one outcome per draw.   *)
(***************************************************************************)
MaxDocs == 4

\* The configurations the Document Builder is explored under.
DocConfigs ==
  [employee_count : {MaxEmployees},
   manager_count : {1},
   teams : {Teams(t) : t \in 1..MaxTeams},
   documents : 0..MaxDocs,
   chat_threads : {0},
   knowledge_graph_edges : {0}]

InitDoc == InitWith(DocConfigs)

OrgNext(d) ==
  \/ CreateDemoPersonasFrom(d)
  \/ GenerateSinglePersonFrom(d)
  \/ AssignManagers
  \/ CreateTeamHistory
  \/ RegisterPeople

DocNext(d) ==
  \/ GenerateDocuments
  \/ CreateSingleDocument(d)
  \/ FinishTeamDocuments
  \/ AddNonEnglishDocuments(d)
  \/ AddDocumentRelationships(d)
  \/ RegisterDocuments

NextDoc == OrgNext(NarrowOrgDraws) \/ DocNext(AuthorDocDraws)

SpecDoc == InitDoc /\ [][NextDoc]_vars

(***************************************************************************)
(* The Document Builder explored for tags and relationships.               *)
(***************************************************************************)
RelConfigs ==
  [employee_count : {MaxEmployees},
   manager_count : {1},
   teams : {Teams(t) : t \in 1..MaxTeams},
   documents : 0..non_english_count,
   chat_threads : {0},
   knowledge_graph_edges : {0}]

InitRel == InitWith(RelConfigs)

NextRel == OrgNext(NarrowOrgDraws) \/ DocNext(TagDocDraws)

SpecRel == InitRel /\ [][NextRel]_vars

(***************************************************************************)
(* The referential-integrity validator on registries with dangling         *)
(* references: two people and up to two documents whose references are     *)
(* drawn from the registered ids and from ids that are not registered.     *)
(***************************************************************************)
\* The people of the registries the validator is explored on.
ValPeople ==
  {[i \in 1..2 |-> [Person(PersonId(i - 1), RoleTitle("Marketing Analyst"), "Marketing", 12)
                      EXCEPT !.manager_id = refs[i]]] :
     refs \in [1..2 -> {NoneId, PersonId(0), PersonId(8)}]}

\* The documents of the registries the validator is explored on.
ValDocuments ==
  LET one(n) ==
        {[Document(DocId(n), "Marketing", author, co_authors,
                   << <<"pricing", "strategy">> >>, "internal", "medium")
            EXCEPT !.related_doc_ids = related] :
           author \in {PersonId(0), PersonId(8)},
           co_authors \in {<<>>, <<PersonId(1), PersonId(8)>>,
                           <<PersonId(8), PersonId(7)>>},
           related \in {<<>>, <<DocId(1), DocId(8)>>, <<DocId(8), DocId(7)>>}}
  IN {<<>>} \cup {<<d>> : d \in one(1)}
            \cup {<<d1, d2>> : d1 \in one(1), d2 \in one(2)}

\* A registry holding the people and documents drawn, nothing else generated.
InitVal ==
  /\ config \in [employee_count : {2}, manager_count : {0}, teams : {Teams(1)},
                 documents : {0}, chat_threads : {0}, knowledge_graph_edges : {0}]
  /\ pc = "validate"
  /\ error = "none"
  /\ config_source = NoSource
  /\ InitLate
  /\ InitGenerators
  /\ people \in ValPeople
  /\ managers = {}
  /\ documents \in ValDocuments
  /\ threads = <<>>
  /\ messages = <<>>
  /\ duplicate_threads = <<>>
  /\ duplicate_messages = <<>>
  /\ emotional_threads = <<>>
  /\ emotional_messages = <<>>
  /\ topics = <<>>
  /\ edges = <<>>
  /\ LET reg == RegisterPeopleFrom(
                  [people |-> <<>>, people_by_team |-> [t \in TeamNames |-> <<>>],
                   managers |-> <<>>], people, 1)
     IN /\ ctx_people = reg.people
        /\ people_by_team = reg.people_by_team
        /\ ctx_managers = reg.managers
  /\ LET reg == RegisterDocumentsFrom([documents |-> <<>>, document_tags |-> <<>>],
                                      documents, 1)
     IN /\ ctx_documents = reg.documents
        /\ document_tags = reg.document_tags
  /\ ctx_threads = <<>>
  /\ ctx_topics = <<>>

NextVal == EnsureReferentialIntegrity

SpecVal == InitVal /\ [][NextVal]_vars

(***************************************************************************)
(* Cross-reference calls on a freshly constructed ContextManager.          *)
(***************************************************************************)
InitXref ==
  /\ pc = "cross_references"
  /\ InitObjects({c \in Configs : c.employee_count = 1 /\ c.manager_count = 0
                                      /\ c.teams = Teams(1)})

NextXref ==
  \/ add_cross_reference
  \/ get_cross_references

SpecXref == InitXref /\ [][NextXref]_vars

(***************************************************************************)
(* Loading the configuration, up to the first step of the first builder.   *)
(***************************************************************************)

\* What a configuration file and the environment may hold.
ConfigSources ==
  [path_exists : BOOLEAN,
   file : [employee_count : {<<>>, <<0>>, <<1>>},
           teams : {<<>>, <<<<>>>>, <<Teams(1)>>},
           documents : {<<>>, <<0>>, <<1>>},
           start_date : {<<>>, <<1>>, <<2>>},
           end_date : {<<2>>}],
   environ : [DATASET_EMPLOYEE_COUNT : {<<>>, <<0>>, <<1>>},
              DATASET_DOCUMENT_COUNT : {<<>>, <<0>>, <<1>>}]]

\* No configuration was loaded yet.
NoConfig == [loaded |-> FALSE]

\* SyntheticDatasetGenerator.__init__ before load_config returned.
InitCfg ==
  /\ pc = "load_config"
  /\ config = NoConfig
  /\ config_source \in ConfigSources
  /\ InitRest

NextCfg ==
  \/ LoadFromFile
  \/ CreateDefaultConfig
  \/ CreateDemoPersonas

SpecCfg == InitCfg /\ [][NextCfg]_vars

(***************************************************************************)
(* Two runs of the Organization Builder with one configuration.            *)
(***************************************************************************)
RerunConfigs ==
  {c \in Configs : /\ c.employee_count = MaxEmployees - 1
                   /\ c.manager_count = 1
                   /\ c.teams = Teams(2)}

InitRerun == InitWith(RerunConfigs)

NextRerun ==
  \/ OrgNext(WideOrgDraws)
  \/ RunAgain

SpecRerun == InitRerun /\ [][NextRerun]_vars

(***************************************************************************)
(* The Permission Builder on registries of a few documents of the default  *)
(* teams, drawn with every visibility and with and without high            *)
(* confidentiality.                                                        *)
(***************************************************************************)
MaxAclDocs == 4

\* The people of the registries: a manager and a new hire.
PermPeople ==
  <<Person(PersonId(0), RoleTitle("Product Manager"), "Product", 12),
    Person(PersonId(1), RoleTitle("New Hire"), "Finance", 3)>>

\* What a document of the registries may be.
PermDocumentKinds ==
  {[team |-> "Finance", visibility |-> "internal", confidentiality |-> "high"],
   [team |-> "Finance", visibility |-> "public", confidentiality |-> "medium"],
   [team |-> "Marketing", visibility |-> "internal", confidentiality |-> "medium"],
   [team |-> "Marketing", visibility |-> "restricted", confidentiality |-> "high"],
   [team |-> "Product", visibility |-> "restricted", confidentiality |-> "low"],
   [team |-> "Product", visibility |-> "public", confidentiality |-> "low"]}

PermDocuments ==
  UNION {{[i \in 1..n |->
             Document(DocId(i), kind[i].team, PersonId(0), <<>>,
                      << <<"pricing", "strategy">> >>, kind[i].visibility,
                      kind[i].confidentiality)] :
            kind \in [1..n -> PermDocumentKinds]} : n \in 0..MaxAclDocs}

InitPerm ==
  /\ config = [DefaultConfig EXCEPT !.employee_count = Len(PermPeople)]
  /\ pc = "document_permissions"
  /\ error = "none"
  /\ config_source = NoSource
  /\ InitLate
  /\ InitGenerators
  /\ people = PermPeople
  /\ managers = {}
  /\ documents \in PermDocuments
  /\ threads = <<>>
  /\ messages = <<>>
  /\ duplicate_threads = <<>>
  /\ duplicate_messages = <<>>
  /\ emotional_threads = <<>>
  /\ emotional_messages = <<>>
  /\ topics = <<>>
  /\ edges = <<>>
  /\ LET reg == RegisterPeopleFrom(
                  [people |-> <<>>, people_by_team |-> [t \in TeamNames |-> <<>>],
                   managers |-> <<>>], people, 1)
     IN /\ ctx_people = reg.people
        /\ people_by_team = reg.people_by_team
        /\ ctx_managers = reg.managers
  /\ LET reg == RegisterDocumentsFrom([documents |-> <<>>, document_tags |-> <<>>],
                                      documents, 1)
     IN /\ ctx_documents = reg.documents
        /\ document_tags = reg.document_tags
  /\ ctx_threads = <<>>
  /\ ctx_topics = <<>>

PermNext(d) ==
  \/ GenerateDocumentPermissions(d)
  \/ GenerateThreadPermissions
  \/ GenerateStarterPackPermissions
  \/ GenerateEdgeCasePermissions(d)

NextPerm == PermNext(LateDraws)

SpecPerm == InitPerm /\ [][NextPerm]_vars

(***************************************************************************)
(* The User Event Builder on registries of the demo personas, with and     *)
(* without a document and a topic.                                         *)
(***************************************************************************)
\* The people of the registries: the demo personas as _create_demo_personas
\* makes them.
EventPeople ==
  [i \in DOMAIN demo_personas |->
     Person(PersonId(i - 1), RoleTitle(demo_personas[i].role), demo_personas[i].team, 12)]

\* The documents and the topics of the registries.
EventDocuments ==
  {<<>>,
   <<Document(DocId(1), "Product", PersonId(0), <<>>, << <<"pricing", "strategy">> >>,
              "internal", "medium")>>}

EventTopics == {<<>>, <<Topic(TopicId(1), <<"pricing", "strategy">>)>>}

\* The draws of the User Event Builder on these registries: views of
\* documents and topics at two instants.
EventSpecDraws ==
  [EventDraws EXCEPT !.event_types = {"VIEWED"},
                     !.resource_types = {"DOC", "TOPIC"}]

InitEvents ==
  /\ config = [DefaultConfig EXCEPT !.employee_count = Len(EventPeople)]
  /\ pc = "perm_done"
  /\ error = "none"
  /\ config_source = NoSource
  /\ InitLate
  /\ InitGenerators
  /\ people = EventPeople
  /\ managers = {}
  /\ documents \in EventDocuments
  /\ threads = <<>>
  /\ messages = <<>>
  /\ duplicate_threads = <<>>
  /\ duplicate_messages = <<>>
  /\ emotional_threads = <<>>
  /\ emotional_messages = <<>>
  /\ topics \in EventTopics
  /\ edges = <<>>
  /\ LET reg == RegisterPeopleFrom(
                  [people |-> <<>>, people_by_team |-> [t \in TeamNames |-> <<>>],
                   managers |-> <<>>], people, 1)
     IN /\ ctx_people = reg.people
        /\ people_by_team = reg.people_by_team
        /\ ctx_managers = reg.managers
  /\ LET reg == RegisterDocumentsFrom([documents |-> <<>>, document_tags |-> <<>>],
                                      documents, 1)
     IN /\ ctx_documents = reg.documents
        /\ document_tags = reg.document_tags
  /\ ctx_threads = <<>>
  /\ ctx_topics = RegisterTopicsFrom(<<>>, topics, 1)

NextEvents == GenerateUserEvents(EventSpecDraws)

SpecEvents == InitEvents /\ [][NextEvents]_vars

(***************************************************************************)
(* The registry under any sequence of calls, from its construction.        *)
(***************************************************************************)
InitRegistry ==
  /\ pc = "registry"
  /\ InitObjects({DefaultConfig})

NextRegistry ==
  \/ RegisterPersonEntity
  \/ RegisterDocumentEntity
  \/ RegisterTopicEntity
  \/ get_related_documents

SpecRegistry == InitRegistry /\ [][NextRegistry]_vars

(***************************************************************************)
(* The covenant PathwayMonitor from its construction, files appearing in   *)
(* the watch directory while it polls.                                     *)
(***************************************************************************)
InitMonitor ==
  /\ pc = "monitor"
  /\ InitObjects({DefaultConfig})

NextMonitor ==
  \/ DropFile
  \/ MonitorRound
  \/ ProcessFile
  \/ EndRound
  \/ MonitorDone

SpecMonitor == InitMonitor /\ [][NextMonitor]_vars

(***************************************************************************)
(* Properties of the Organization Builder.                                 *)
(***************************************************************************)
(* The Communication Builder after an organization and a document batch    *)
(* with one outcome per draw.                                              *)
(***************************************************************************)
MaxThreads == 3

\* The draws of the Document Builder, one outcome per draw.
NarrowDocDraws ==
  [topics |-> {<<"Pricing", "Strategy">>},
   templates |-> {"Campaign Report", "PRD", "RFC", "Quarterly Report", "Policy"},
   team_themes |-> {<<"retention">>, <<"onboarding">>, <<"scalability">>,
                    <<"compliance">>, <<"benefits">>},
   authors |-> {1},
   coauthors |-> {FALSE},
   coauthor_positions |-> {<<1>>},
   tag_positions |-> {<<1, 2, 3, 4, 5>>},
   convert_positions |-> {<<1, 2, 3, 4, 5>>},
   languages |-> {"es"},
   related_positions |-> {<<1>>, <<1, 2>>},
   visibilities |-> {"internal"},
   confidentialities |-> {"medium"}]

\* The configurations the Communication Builder is explored under.
CommConfigs ==
  [employee_count : {MaxEmployees},
   manager_count : {1},
   teams : {Teams(t) : t \in 1..MaxTeams},
   documents : {1},
   chat_threads : 0..MaxThreads,
   knowledge_graph_edges : {0}]

InitComm == InitWith(CommConfigs)

CommNext(d) ==
  \/ GenerateCommunication
  \/ GenerateThreadWithMessages(d)
  \/ NextChannelType
  \/ DuplicateDiscussion(d)
  \/ ExtendWithDuplicates
  \/ EmotionalThread(d)
  \/ RegisterThreads

NextComm ==
  \/ OrgNext(NarrowOrgDraws)
  \/ DocNext(NarrowDocDraws)
  \/ CommNext(CommDraws)

SpecComm == InitComm /\ [][NextComm]_vars

(***************************************************************************)
(* The pipeline up to the Knowledge Graph Builder: organization,           *)
(* documents, communication, knowledge graph (the metrics step between     *)
(* the last two creates none of these entities).                           *)
(***************************************************************************)
MaxEdges == 40

\* The draws of the Document Builder, co-authors drawn or not.
IdsDocDraws ==
  [NarrowDocDraws EXCEPT !.coauthors = {TRUE, FALSE}]

\* The draws of the Communication Builder, one outcome per draw but for the
\* participants and the teams of a duplicate discussion.
IdsCommDraws ==
  [CommDraws EXCEPT !.message_start = {600},
                    !.team_positions = {<<1, 2>>, <<3, 1>>},
                    !.scenarios = {1},
                    !.emo_participant_counts = {3}]

\* The configurations the pipeline is explored under.
IdsConfigs ==
  [employee_count : {MaxEmployees},
   manager_count : {1},
   teams : {Teams(t) : t \in 1..MaxTeams},
   documents : {MaxDocs - 1},
   chat_threads : {2 * MaxThreads},
   knowledge_graph_edges : {MaxEdges \div 2, MaxEdges}]

InitIds == InitWith(IdsConfigs)

KgNext(d) ==
  \/ GenerateTopics(d)
  \/ AuthoredEdges
  \/ ViewedEdges(d)
  \/ MentionedEdges
  \/ CoOccurrenceEdges
  \/ SimilarTopicEdges
  \/ TeamOverlapEdges
  \/ WorkedWithEdges
  \/ VersionEdges(d)
  \/ PadEdge(d)
  \/ TruncateEdges
  \/ RegisterTopics

NextIds ==
  \/ OrgNext(NarrowOrgDraws)
  \/ DocNext(IdsDocDraws)
  \/ CommNext(IdsCommDraws)
  \/ KgNext(KgDraws)

SpecIds == InitIds /\ [][NextIds]_vars

(***************************************************************************)
(* The emotional threads of the Communication Builder, over every length   *)
(* class of the message loop: the shortest run, one past it, the longest.  *)
(***************************************************************************)
EmoDraws ==
  [IdsCommDraws EXCEPT !.scenarios = {1, 3, 5},
                       !.emo_message_counts = {5, 6, 10}]

EmoConfigs ==
  [employee_count : {MaxEmployees},
   manager_count : {1},
   teams : {Teams(MaxTeams)},
   documents : {1},
   chat_threads : {MaxThreads},
   knowledge_graph_edges : {0}]

InitEmo == InitWith(EmoConfigs)

NextEmo ==
  \/ OrgNext(NarrowOrgDraws)
  \/ DocNext(NarrowDocDraws)
  \/ CommNext(EmoDraws)

SpecEmo == InitEmo /\ [][NextEmo]_vars

(***************************************************************************)
(* The whole pipeline of generate_all: the builders in their order, then   *)
(* ensure_referential_integrity on the registry they leave.                *)
(***************************************************************************)
\* The draws of the starter packs and the Permission Builder in the pipeline.
PipelineLateDraws == [orders |-> {"first"}]

\* The draws of the User Event Builder in the pipeline: views at one instant.
PipelineEventDraws ==
  [EventDraws EXCEPT !.event_types = {"VIEWED"},
                     !.resource_types = {"DOC", "PACK"},
                     !.timestamps = {1}]

\* The draws of the Meeting Builder in the pipeline: team and cross-team
\* meetings, one outcome per draw but for the number of teams of the latter.
PipelineMeetDraws ==
  [MeetDraws EXCEPT !.meeting_types = {"standup", "cross_team"},
                    !.attendee_counts = {5},
                    !.picks = {"first"}]

\* The configurations of the pipeline: those of all the teams.
PipelineConfigs == {c \in IdsConfigs : Len(c.teams) = MaxTeams}

InitAll == InitWith(PipelineConfigs)

NextAll ==
  \/ OrgNext(NarrowOrgDraws)
  \/ DocNext(IdsDocDraws)
  \/ CommNext(IdsCommDraws)
  \/ KgNext(KgDraws)
  \/ CreateMeeting(PipelineMeetDraws)
  \/ FinishMeetings
  \/ GenerateStarterPacks(PipelineLateDraws)
  \/ PermNext(PipelineLateDraws)
  \/ GenerateUserEvents(PipelineEventDraws)
  \/ EnsureReferentialIntegrity

SpecAll == InitAll /\ [][NextAll]_vars

(***************************************************************************)
(* The pipeline with people of a tenure that makes them potential managers *)
(* whatever their role title, so that _assign_managers may sample a        *)
(* manager whose title does not name one.                                  *)
(***************************************************************************)
TenuredOrgDraws == [NarrowOrgDraws EXCEPT !.tenures = {3, 24}]

InitTenured == InitWith(PipelineConfigs)

NextTenured ==
  \/ OrgNext(TenuredOrgDraws)
  \/ DocNext(IdsDocDraws)
  \/ CommNext(IdsCommDraws)
  \/ KgNext(KgDraws)
  \/ CreateMeeting(PipelineMeetDraws)
  \/ FinishMeetings
  \/ GenerateStarterPacks(PipelineLateDraws)
  \/ PermNext(PipelineLateDraws)
  \/ GenerateUserEvents(PipelineEventDraws)
  \/ EnsureReferentialIntegrity

SpecTenured == InitTenured /\ [][NextTenured]_vars

(***************************************************************************)
(* The pipeline up to the knowledge graph under configurations whose first *)
(* team has a member, or has none and so gets no document.  The padding    *)
(* loop is fair: a turn that can add an edge is taken eventually.          *)
(***************************************************************************)
PadConfigs ==
  [employee_count : {Len(demo_personas) + 1},
   manager_count : {1},
   teams : {<<"Marketing", "Product", "Finance", "Engineering">>,
            <<"Finance", "Marketing", "Product", "Engineering">>},
   documents : {1},
   chat_threads : {MaxThreads},
   knowledge_graph_edges : {MaxEdges \div 2, MaxEdges}]

InitPad == InitWith(PadConfigs)

NextPad ==
  \/ OrgNext(NarrowOrgDraws)
  \/ DocNext(IdsDocDraws)
  \/ CommNext(IdsCommDraws)
  \/ KgNext(KgDraws)

SpecPad ==
  /\ InitPad
  /\ [][NextPad]_vars
  /\ WF_vars(PadEdge(KgDraws))
  /\ WF_vars(TruncateEdges)

(***************************************************************************)
\* The people of the returned list that have no manager_id.
Unmanaged == {i \in DOMAIN people : people[i].manager_id = NoneId}

\* C1: after the Organization Builder has run on a configuration with
\* manager_count <= employee_count, exactly manager_count people have no
\* manager_id, and every other person's manager_id is the id of one of them.
C1_ExactlyManagerCountManagers ==
  (pc = "org_done" /\ config.manager_count <= config.employee_count) =>
    /\ Cardinality(Unmanaged) = config.manager_count
    /\ Unmanaged = managers
    /\ \A i \in DOMAIN people \ Unmanaged :
         \E m \in Unmanaged : people[i].manager_id = people[m].person_id

\* A finished run with two managers out of five people, one of them reporting
\* to a manager of another team.
C1_Witness ==
  /\ pc = "org_done"
  /\ config.manager_count = 2 /\ config.employee_count = 5
  /\ \E i \in DOMAIN people, m \in managers :
       /\ people[i].manager_id = people[m].person_id
       /\ people[i].team # people[m].team

\* The person ids the Organization Builder sampled as managers.
SelectedManagerIds == {people[m].person_id : m \in managers}

\* C2 (as claimed): once the people are registered, the registry's manager set
\* holds exactly manager_count ids, those of the people sampled as managers.
C2_RegistryManagersAreSelected ==
  pc = "org_done" =>
    /\ Len(ctx_managers) = config.manager_count
    /\ Range(ctx_managers) = SelectedManagerIds

\* C3: every registered person whose manager_id is set has a registered
\* manager, who is another person.
C3_ManagerResolves ==
  pc = "org_done" =>
    \A i \in DOMAIN people :
      people[i].manager_id # NoneId =>
        /\ people[i].manager_id \in DOMAIN ctx_people
        /\ ctx_people[people[i].manager_id].person_id = people[i].manager_id
        /\ people[i].manager_id # people[i].person_id

\* A finished run in which a non-demo person reports to a manager.
C3_Witness ==
  /\ pc = "org_done"
  /\ Len(people) > Len(demo_personas)
  /\ people[Len(people)].manager_id # NoneId
  /\ people[Len(people)].manager_id \in DOMAIN ctx_people

\* C4 (as claimed): the Organization Builder returns exactly employee_count
\* people.
C4_ReturnsEmployeeCount ==
  pc = "org_done" => Len(people) = config.employee_count

\* The registered people of a team.
TeamMembers(team) == {pid \in DOMAIN ctx_people : ctx_people[pid].team = team}

\* C5: once the Document Builder has run, the author and every co-author of
\* each document is the id of a registered person of the document's own
\* team, and the author is not among the co-authors.
C5_AuthorsAreTeamMembers ==
  pc = "docs_done" =>
    \A i \in DOMAIN documents :
      LET doc == documents[i]
      IN /\ doc.author_person_id \in TeamMembers(doc.team)
         /\ \A k \in DOMAIN doc.co_authors :
              /\ doc.co_authors[k] \in TeamMembers(doc.team)
              /\ doc.co_authors[k] # doc.author_person_id

\* A finished run with a document that has two co-authors.
C5_Witness ==
  /\ pc = "docs_done"
  /\ \E i \in DOMAIN documents : Len(documents[i].co_authors) = 2

\* The number of documents generated for a team.
DocumentsOf(team) == Cardinality({i \in DOMAIN documents : documents[i].team = team})

\* The share of the quota that falls to the i-th configured team (1-based).
Share(i) ==
  LET D == config.documents
      T == Len(config.teams)
  IN IF i <= D % T THEN (D \div T) + 1 ELSE D \div T

\* C7 as stated: the Document Builder produces exactly the quota D, the i-th
\* team receiving its share of it.
C7_ProducesExactlyTheQuota ==
  pc = "docs_done" =>
    /\ Len(documents) = config.documents
    /\ \A i \in DOMAIN config.teams : DocumentsOf(config.teams[i]) = Share(i)

\* C7, amended: every configured team with at least one registered member
\* receives its share of the quota (floor(D/T)+1 for the first D mod T teams,
\* floor(D/T) for the others), a team without members receives no document,
\* and the total is the sum of the shares of the teams that have members.
RECURSIVE SharesOfPopulatedTeams(_)
SharesOfPopulatedTeams(n) ==
  IF n = 0 THEN 0
  ELSE SharesOfPopulatedTeams(n - 1)
         + (IF TeamMembers(config.teams[n]) = {} THEN 0 ELSE Share(n))

C7_PopulatedTeamsGetTheirShare ==
  pc = "docs_done" =>
    /\ \A i \in DOMAIN config.teams :
         DocumentsOf(config.teams[i]) =
           IF TeamMembers(config.teams[i]) = {} THEN 0 ELSE Share(i)
    /\ Len(documents) = SharesOfPopulatedTeams(Len(config.teams))

\* A finished run where a team without members lost its share while the
\* populated teams received shares that differ by one.
C7_Witness ==
  /\ pc = "docs_done"
  /\ Len(documents) < config.documents
  /\ \E i, j \in DOMAIN config.teams :
       /\ DocumentsOf(config.teams[i]) = DocumentsOf(config.teams[j]) + 1
       /\ DocumentsOf(config.teams[j]) > 0

\* C6: once the relationships are linked, every document has at most two
\* related_doc_ids, none is its own id, they are pairwise distinct, and each
\* is the id of a document of the batch that shares a tag with it.
C6_RelatedDocumentsShareATag ==
  pc \in {"register_documents", "docs_done"} =>
    \A i \in DOMAIN documents :
      LET doc == documents[i]
          related == doc.related_doc_ids
      IN /\ Len(related) <= 2
         /\ \A k \in DOMAIN related : related[k] # doc.doc_id
         /\ \A k, l \in DOMAIN related : k # l => related[k] # related[l]
         /\ \A k \in DOMAIN related :
              \E j \in DOMAIN documents :
                /\ documents[j].doc_id = related[k]
                /\ Range(documents[j].tags) \cap Range(doc.tags) # {}

\* Linked documents: one with two related documents out of three candidates,
\* next to a document of the batch it shares no tag with.
C6_Witness ==
  /\ pc = "docs_done"
  /\ \E i, j \in DOMAIN documents :
       /\ Len(documents[i].related_doc_ids) = 2
       /\ Cardinality({k \in DOMAIN documents :
                         Range(documents[k].tags) \cap Range(documents[i].tags) # {}}) >= 4
       /\ Range(documents[j].tags) \cap Range(documents[i].tags) = {}

\* The messages of a thread, in generation order.
MessagesOf(thread_id) == SelectSeq(messages, LAMBDA m : m.thread_id = thread_id)

\* C9 as stated: in every thread (regular, duplicate-discussion, emotional)
\* each message is later than the one generated before it, and no message
\* precedes the thread's start time.
C9_MessagesFollowThreadStart ==
  pc = "comm_done" =>
    \A i \in DOMAIN threads :
      LET ms == MessagesOf(threads[i].thread_id)
      IN /\ \A k \in 1..(Len(ms) - 1) : ms[k].timestamp < ms[k + 1].timestamp
         /\ \A k \in DOMAIN ms : ms[k].timestamp >= threads[i].created_at

\* The duplicate-discussion threads of the result, in generation order.
DuplicateThreadsOf(ths) == SelectSeq(ths, LAMBDA t : t.thread_id[1] = "T_DUP_")

\* C10 as stated, for the topics gone through: two duplicate-discussion
\* threads per topic, the two of a pair carrying the same topic in two
\* different teams.
C10_TwoThreadsPerDuplicateTopic ==
  pc = "comm_done" =>
    LET dups == DuplicateThreadsOf(threads)
    IN /\ Len(dups) = 2 * Len(duplicate_topics)
       /\ \A k \in DOMAIN duplicate_topics :
            /\ dups[2 * k - 1].topic_tags[2] = duplicate_topics[k]
            /\ dups[2 * k].topic_tags[2] = duplicate_topics[k]
            /\ dups[2 * k - 1].topic_tags[1] # dups[2 * k].topic_tags[1]

(***************************************************************************)
(* Properties of the ids the builders assign.                              *)
(***************************************************************************)
\* The ids of a list of entities are pairwise distinct.
DistinctIds(ids) == \A i, j \in DOMAIN ids : i # j => ids[i] # ids[j]

\* A registry that has been filled holds one entry per entity generated.
OneEntryEach(registry, entities) ==
  registry # <<>> => Cardinality(DOMAIN registry) = Len(entities)

\* C8: every builder assigns pairwise distinct ids to the people, documents,
\* threads, messages, topics and edges it creates, so that registering a
\* builder's output overwrites no earlier entity: each registry map holds as
\* many entries as entities of its type were generated.
C8_IdsAreDistinct ==
  /\ DistinctIds([i \in DOMAIN people |-> people[i].person_id])
  /\ DistinctIds([i \in DOMAIN documents |-> documents[i].doc_id])
  /\ DistinctIds([i \in DOMAIN threads |-> threads[i].thread_id])
  /\ DistinctIds([i \in DOMAIN messages |-> messages[i].message_id])
  /\ DistinctIds([i \in DOMAIN duplicate_messages |-> duplicate_messages[i].message_id])
  /\ DistinctIds([i \in DOMAIN emotional_messages |-> emotional_messages[i].message_id])
  /\ DistinctIds([i \in DOMAIN topics |-> topics[i].topic_id])
  /\ DistinctIds([i \in DOMAIN edges |-> edges[i].edge_id])
  /\ OneEntryEach(ctx_people, people)
  /\ OneEntryEach(ctx_documents, documents)
  /\ OneEntryEach(ctx_threads, threads)
  /\ OneEntryEach(ctx_topics, topics)

\* A finished run with people, documents, several regular, duplicate and
\* emotional threads, every topic registered and the edges cut to the quota
\* after more of them were created.
C8_Witness ==
  /\ pc = "kg_done"
  /\ Len(people) = MaxEmployees
  /\ Len(documents) = MaxDocs - 1
  /\ \E i, j \in DOMAIN duplicate_threads :
       i # j /\ duplicate_threads[i].participants # <<>>
             /\ duplicate_threads[j].participants # <<>>
  /\ Len(threads) > 1 + Len(duplicate_threads) + Len(emotional_threads)
  /\ Len(emotional_threads) = emotional_thread_count
  /\ Len(messages) > Len(duplicate_messages) + Len(emotional_messages)
  /\ Cardinality(DOMAIN ctx_topics) = Len(TopicNames)
  /\ Len(edges) = config.knowledge_graph_edges
  /\ edge_counter > Len(edges)

(***************************************************************************)
(* Properties of the Knowledge Graph Builder.                              *)
(***************************************************************************)
\* C11: the list of edges _generate_edges returns holds exactly
\* knowledge_graph_edges edges, whether the sub-generators created fewer
\* (the list is padded with filler edges) or more (the list is cut).
C11_EdgeCountIsTheTarget ==
  pc \in {"register_topics", "kg_done"} => Len(edges) = config.knowledge_graph_edges

\* A returned list whose last edge is a filler edge, in a run whose
\* sub-generators created fewer edges than the target.
C11_Witness ==
  /\ pc = "kg_done"
  /\ config.knowledge_graph_edges = MaxEdges
  /\ Len(edges) = MaxEdges
  /\ edge_counter = MaxEdges
  /\ edges[Len(edges)].edge_type = "AUTHORED"
  /\ edges[Len(edges) - 1].edge_type = "AUTHORED"

\* A returned list that was cut: more edges were created than it holds.
C11_WitnessCut ==
  /\ pc = "kg_done"
  /\ edge_counter > Len(edges)
  /\ Len(edges) = config.knowledge_graph_edges

(***************************************************************************)
(* Properties of the referential-integrity validator.                      *)
(***************************************************************************)
\* The references to a person that resolve to no registered person: the
\* manager of a person, the author of a document, a co-author of a document.
DanglingPersonRefs ==
  {<<"manager_id", people[i].person_id, people[i].manager_id>> :
     i \in {j \in DOMAIN people : /\ people[j].manager_id # NoneId
                                  /\ people[j].manager_id \notin DOMAIN ctx_people}}
  \cup {<<"author_person_id", documents[i].doc_id, documents[i].author_person_id>> :
     i \in {j \in DOMAIN documents : documents[j].author_person_id \notin DOMAIN ctx_people}}
  \cup {<<"co_author", documents[p[1]].doc_id, documents[p[1]].co_authors[p[2]]>> :
     p \in {q \in (DOMAIN documents) \X (1..2) :
              /\ q[2] \in DOMAIN documents[q[1]].co_authors
              /\ documents[q[1]].co_authors[q[2]] \notin DOMAIN ctx_people}}

\* The related_doc_ids entries that resolve to no registered document.
DanglingDocumentRefs ==
  {<<"related_doc", documents[p[1]].doc_id, documents[p[1]].related_doc_ids[p[2]]>> :
     p \in {q \in (DOMAIN documents) \X (1..2) :
              /\ q[2] \in DOMAIN documents[q[1]].related_doc_ids
              /\ documents[q[1]].related_doc_ids[q[2]] \notin DOMAIN ctx_documents}}

\* The result of a validation that has run.
C13_Counted ==
  pc = "validated" =>
    /\ Range(validation.errors) = DanglingPersonRefs
    /\ Len(validation.errors) = Cardinality(DanglingPersonRefs)
    /\ Range(validation.warnings) = DanglingDocumentRefs
    /\ Len(validation.warnings) = Cardinality(DanglingDocumentRefs)
    /\ validation.is_valid <=> validation.errors = <<>>
    /\ error = "none"

\* C13: the validator reports each dangling person reference (manager_id,
\* author_person_id, each co-author) as exactly one error and each dangling
\* related_doc_ids entry as exactly one warning; is_valid is false exactly
\* when an error was recorded, so warnings alone leave the result valid; the
\* validator raises nothing and leaves the registry as it was.
C13_ErrorsAndWarnings ==
  /\ []C13_Counted
  /\ [][pc' = "validated" =>
          UNCHANGED <<people, documents, ctx_vars, ctx_documents, document_tags,
                      ctx_threads, ctx_topics>>]_vars

\* A validated registry with warnings and no error: the result is valid.
C13_Witness ==
  /\ pc = "validated"
  /\ validation.errors = <<>>
  /\ Len(validation.warnings) >= 2
  /\ validation.is_valid

\* A validated registry with a dangling manager, author and co-author.
C13_WitnessErrors ==
  /\ pc = "validated"
  /\ Len(validation.errors) >= 4
  /\ ~validation.is_valid

\* The cross-reference relation is symmetric.
Symmetric(refs) ==
  \A a \in DOMAIN refs : \A b \in refs[a] : b \in DOMAIN refs /\ a \in refs[b]

\* C20: after any sequence of add_cross_reference calls the cross-reference
\* relation is symmetric, and get_cross_references of an id that has no entry
\* returns the empty set and adds no entry.
C20_SymmetricAndReadOnly ==
  /\ [](pc = "cross_references" => Symmetric(cross_references))
  /\ [][(xref_call'.op = "get" /\ xref_call'.entity_id \notin DOMAIN cross_references)
          => /\ xref_call'.returned = {}
             /\ cross_references' = cross_references]_vars

\* Entities were cross-referenced and the references of an id without an entry
\* were asked for.
C20_Witness ==
  /\ DocId(1) \in DOMAIN cross_references
  /\ PersonId(0) \in cross_references[DocId(1)]
  /\ xref_call.op = "get"
  /\ xref_call.entity_id = ThreadId(1)
  /\ ThreadId(1) \notin DOMAIN cross_references

\* The configuration passes the checks of the validation.
ValidOrganization(cfg) ==
  /\ cfg.employee_count >= 1
  /\ cfg.teams # <<>>

\* C17: on every path that yields a configuration, from a file or from the
\* defaults with the environment overrides, an employee count below 1 and an
\* empty team list are rejected before a generator runs (the dates of the
\* configuration are never taken from the source).
C17_InvalidIsRejected ==
  pc \in {"start", "generate_people"} => ValidOrganization(config)

\* A configuration file with an invalid value was rejected.
C17_WitnessRejected ==
  /\ pc = "rejected"
  /\ error = "ValueError"
  /\ config_source.path_exists

\* C14: two runs with the same configuration (the code takes no seed) assign
\* the same roles, teams and managers to the same people and register the same
\* managers.
C14_RunsAgree ==
  (pc = "org_done" /\ first_run.done)
    => /\ Len(people) = Len(first_run.people)
       /\ \A i \in DOMAIN people :
            /\ people[i].role_title = first_run.people[i].role_title
            /\ people[i].team = first_run.people[i].team
            /\ people[i].manager_id = first_run.people[i].manager_id
       /\ ctx_managers = first_run.managers

\* C16: under a configuration that passes validation (employee_count >= 1, at
\* least one team, documents >= 1) no builder raises, whatever the number of
\* teams and people.
C16_EveryBuilderCompletes ==
  (config.employee_count >= 1 /\ config.teams # <<>> /\ config.documents >= 1)
    => (pc # "crashed" /\ error = "none")

\* The documents that qualify for a Finance-only entry: the Finance
\* documents, else the documents of high confidentiality.
QualifyingDocuments ==
  {documents[i].doc_id : i \in {k \in DOMAIN documents :
     \/ documents[k].team = "Finance"
     \/ documents[k].confidentiality = "high"}}

\* The Finance-only document entries, as get_permission_summary counts them.
FinanceOnlyAcls ==
  SelectSeq(acls, LAMBDA acl : acl.resource_type = "DOC" /\ acl.allow_teams = <<"Finance">>)

\* C18: the generated ACLs hold exactly 10 Finance-restricted document entries,
\* or as many as there are qualifying documents (of the Finance team, else of
\* high confidentiality) when fewer than 10 qualify, and no document has two.
C18_TenFinanceRestricted ==
  pc = "perm_done" =>
    /\ summary_finance_restricted = Min2(10, Cardinality(QualifyingDocuments))
    /\ \A i, j \in DOMAIN FinanceOnlyAcls :
         i # j => FinanceOnlyAcls[i].resource_id # FinanceOnlyAcls[j].resource_id

\* The documents of internal visibility.
InternalDocuments == {i \in DOMAIN documents : documents[i].visibility = "internal"}

\* C19: the generated ACLs hold exactly 3 entries with acl_warning set, or
\* none when there are fewer than 3 documents of internal visibility.
C19_ThreeWarnings ==
  pc = "perm_done" =>
    summary_mis_permissioned <= 3
      /\ (Cardinality(InternalDocuments) >= 3 => summary_mis_permissioned = 3)

(***************************************************************************)
(* Properties of the whole pipeline.                                       *)
(***************************************************************************)
\* C12: when ensure_referential_integrity has run on the registry a run of the
\* builders in pipeline order leaves, with nothing changed in between, it has
\* found no error: is_valid is true and the list of errors is empty.
C12_GeneratedDatasetIsValid ==
  pc = "validated" => (validation.is_valid /\ validation.errors = <<>>)

\* A validated run whose registry holds references to resolve: a person with a
\* manager, a person without one, and a document with a co-author and a
\* related document.
C12_Witness ==
  /\ pc = "validated"
  /\ validation.is_valid
  /\ \E i \in DOMAIN AllPeople : AllPeople[i].manager_id # NoneId
  /\ \E i \in DOMAIN AllPeople : AllPeople[i].manager_id = NoneId
  /\ \E i \in DOMAIN RegisteredDocuments :
       /\ RegisteredDocuments[i].co_authors # <<>>
       /\ RegisteredDocuments[i].related_doc_ids # <<>>
  /\ user_events # <<>>

\* generate_all: the stage a step of the run belongs to, a stage beginning
\* where the builder before it has returned.  The starter packs, which
\* generate_all builds itself between the meetings and the permissions, are
\* counted with the meetings; the validation comes after the last stage.
StageOf(at) ==
  IF at \in {"start", "generate_people", "team_history", "register_people"} THEN 1
  ELSE IF at \in {"org_done", "team_documents", "document_relationships",
                  "register_documents"} THEN 2
  ELSE IF at \in {"docs_done", "channel_threads", "duplicate_discussions",
                  "emotional_threads"} THEN 3
  ELSE IF at \in {"comm_done", "authored_edges", "viewed_edges", "mentioned_edges",
                  "co_occurrence_edges", "similar_topic_edges", "team_overlap_edges",
                  "worked_with_edges", "version_edges", "pad_edges",
                  "register_topics"} THEN 4
  ELSE IF at \in {"kg_done", "starter_packs"} THEN 5
  ELSE IF at \in {"document_permissions", "thread_permissions",
                  "starter_pack_permissions", "edge_case_permissions"} THEN 6
  ELSE IF at = "perm_done" THEN 7
  ELSE IF at \in {"validate", "validated"} THEN 8
  ELSE 0

\* The stages of generate_all the run has reached or gone through.
Reached(stage) == pc # "crashed" /\ StageOf(pc) >= stage

\* Every person of the Organization Builder is in the registry, under its id
\* and under its team.
PeopleRegistered ==
  \A i \in DOMAIN people :
    /\ people[i].person_id \in DOMAIN ctx_people
    /\ ctx_people[people[i].person_id] = people[i]
    /\ people[i].team \in DOMAIN people_by_team
    /\ people[i].person_id \in Range(people_by_team[people[i].team])

\* Every document of the Document Builder is in the registry, under its id
\* and under each of its tags.
DocumentsRegistered ==
  \A i \in DOMAIN documents :
    /\ documents[i].doc_id \in DOMAIN ctx_documents
    /\ ctx_documents[documents[i].doc_id] = documents[i]
    /\ \A k \in DOMAIN documents[i].tags :
         /\ documents[i].tags[k] \in DOMAIN document_tags
         /\ documents[i].doc_id \in document_tags[documents[i].tags[k]]

\* Every thread of the Communication Builder is in the registry.
ThreadsRegistered ==
  \A i \in DOMAIN threads :
    /\ threads[i].thread_id \in DOMAIN ctx_threads
    /\ ctx_threads[threads[i].thread_id] = threads[i]

\* Every topic of the Knowledge Graph Builder is in the registry.
TopicsRegistered ==
  \A i \in DOMAIN topics :
    /\ topics[i].topic_id \in DOMAIN ctx_topics
    /\ ctx_topics[topics[i].topic_id] = topics[i]

\* The ids the registry holds an entity under.
RegisteredIds ==
  DOMAIN ctx_people \cup DOMAIN ctx_documents \cup DOMAIN ctx_threads \cup DOMAIN ctx_topics

\* What the stages before the one the run is in have registered.
EarlierStagesRegistered ==
  /\ Reached(2) => PeopleRegistered
  /\ Reached(3) => DocumentsRegistered
  /\ Reached(4) => ThreadsRegistered
  /\ Reached(5) => TopicsRegistered

\* A step stays in its stage or begins the next one (or the run stops on an
\* exception).
StageStep ==
  \/ pc' = "crashed"
  \/ /\ pc # "crashed"
     /\ StageOf(pc) \in 1..8
     /\ StageOf(pc') \in {StageOf(pc), StageOf(pc) + 1}

EventsOf(person_id) == SelectSeq(user_events, LAMBDA ev : ev.person_id = person_id)

\* C21: the list the User Event Builder returns is sorted by non-decreasing
\* timestamp across all personas, every event is an event of one of the demo
\* personas found in the registry, and no persona has more events in it than
\* its share, 80 // (number of demo personas found).
C21_SortedAndWithinShare ==
  pc = "validate" =>
    /\ \A i, j \in DOMAIN user_events :
         i < j => user_events[i].timestamp <= user_events[j].timestamp
    /\ \A i \in DOMAIN user_events :
         \E k \in DOMAIN DemoPeople :
           user_events[i].person_id = DemoPeople[k].person.person_id
    /\ \A k \in DOMAIN DemoPeople :
         Len(EventsOf(DemoPeople[k].person.person_id)) <= PersonaShare(Len(DemoPeople))

\* A returned list in which the events of two personas are interleaved in
\* time, one persona has its full share and another has less than it.
C21_Witness ==
  /\ pc = "validate"
  /\ \E i, j, k \in DOMAIN user_events :
       /\ i < j /\ j < k
       /\ user_events[i].person_id = user_events[k].person_id
       /\ user_events[i].person_id # user_events[j].person_id
       /\ user_events[i].timestamp < user_events[k].timestamp
  /\ \E k \in DOMAIN DemoPeople :
       Len(EventsOf(DemoPeople[k].person.person_id)) = PersonaShare(Len(DemoPeople))
  /\ \E k \in DOMAIN DemoPeople :
       Len(EventsOf(DemoPeople[k].person.person_id)) < PersonaShare(Len(DemoPeople))

(***************************************************************************)
(* Properties of the padding loop of the Knowledge Graph Builder.          *)
(***************************************************************************)
\* C22: the padding loop always ends: once _generate_edges has reached
\* "while len(edges) < knowledge_graph_edges", the list is eventually returned
\* (cut to the target), whatever the registry holds, when the turns that can
\* add an edge are taken fairly.
C22_PaddingTerminates == (pc = "pad_edges") ~> (pc = "register_topics")

\* The loop is reached with fewer edges than the target and no document in the
\* registry.
C22_WitnessNoDocument ==
  /\ pc = "pad_edges"
  /\ Len(edges) < config.knowledge_graph_edges
  /\ RegisteredDocuments = <<>>

(***************************************************************************)
(* Properties of the topic edges of the Knowledge Graph Builder.           *)
(***************************************************************************)
\* The registered documents that carry a tag of each of two topics.
CoOccurringDocuments(topic1, topic2) ==
  {i \in DOMAIN RegisteredDocuments :
     \E tag1, tag2 \in Range(RegisteredDocuments[i].tags) :
       TagMatchesTopic(tag1, topic1) /\ TagMatchesTopic(tag2, topic2)}

\* There is an edge of the type between the two topics.
HasTopicEdge(edge_type, src_id, dst_id) ==
  \E e \in DOMAIN edges :
    /\ edges[e].edge_type = edge_type
    /\ edges[e].src_id = src_id
    /\ edges[e].dst_id = dst_id

\* C23: the edge sub-generators go over the topics created in the same run:
\* when they have run (and before the list is cut) there is a SIMILAR_TOPIC
\* edge for every topic and each of its related topics, and a CO_OCCURS_WITH
\* edge for every two topics that occur together in at least 2 documents.
C23_TopicEdgesAreEmitted ==
  pc = "pad_edges" =>
    /\ \A i \in DOMAIN topics :
         \A k \in DOMAIN topics[i].related_topic_ids :
           HasTopicEdge("SIMILAR_TOPIC", topics[i].topic_id, topics[i].related_topic_ids[k])
    /\ \A i, j \in DOMAIN topics :
         (i # j /\ Cardinality(CoOccurringDocuments(topics[i], topics[j])) >= 2)
           => HasTopicEdge("CO_OCCURS_WITH", topics[i].topic_id, topics[j].topic_id)

\* The sub-generators have run in a run whose topics have related topics and
\* whose documents carry two topics twice, and no topic edge was created.
C23_WitnessNoTopicEdge ==
  /\ pc = "pad_edges"
  /\ generated_topics = <<>>
  /\ \E i \in DOMAIN topics : topics[i].related_topic_ids # <<>>
  /\ \E i, j \in DOMAIN topics :
       i # j /\ Cardinality(CoOccurringDocuments(topics[i], topics[j])) >= 2
  /\ \A e \in DOMAIN edges : edges[e].edge_type \notin {"SIMILAR_TOPIC", "CO_OCCURS_WITH"}

(***************************************************************************)
(* Properties of the emotional threads.                                    *)
(***************************************************************************)
\* The messages of a thread, in the order they were appended.
EmotionalMessagesOf(thread_id) ==
  SelectSeq(emotional_messages, LAMBDA m : m.thread_id = thread_id)

\* The scenario an emotional thread was generated from: topic_tags is
\* ["incident", scenario.topic], and the topics of the scenarios are distinct.
ScenarioOf(thread) ==
  CHOOSE s \in DOMAIN emotional_scenarios :
    emotional_scenarios[s].topic = thread.topic_tags[2]

\* The messages go through the lifecycle: a first phase of the scenario's
\* emotion, then a phase of escalation, then a phase of calm that lasts to
\* the final message.
Lifecycle(msgs, emotion) ==
  \E a \in 1..Len(msgs), b \in 1..Len(msgs) :
    /\ a < b /\ b < Len(msgs)
    /\ \A k \in 1..a : msgs[k].emotions = emotion
    /\ \A k \in (a + 1)..b : msgs[k].emotions \in {"frustrated", "urgent"}
    /\ \A k \in (b + 1)..Len(msgs) : msgs[k].emotions = "calm"

\* C24: the messages of every emotional thread carry the scenario's emotion
\* first, an escalated emotion (frustrated or urgent) in the middle and calm
\* at the end, the final message being calm; a calm message is never
\* followed by one that is not calm.
C24_EmotionalLifecycle ==
  \A t \in DOMAIN emotional_threads :
    LET msgs == EmotionalMessagesOf(emotional_threads[t].thread_id)
        emotion == emotional_scenarios[ScenarioOf(emotional_threads[t])].emotion
    IN /\ Lifecycle(msgs, emotion)
       /\ msgs[Len(msgs)].emotions = "calm"
       /\ \A i \in 1..Len(msgs), j \in 1..Len(msgs) :
            (i < j /\ msgs[i].emotions = "calm") => msgs[j].emotions = "calm"

\* An emotional thread of the shortest length the loop draws, whose final
\* message is still escalated.
C24_WitnessShortThread ==
  \E t \in DOMAIN emotional_threads :
    LET msgs == EmotionalMessagesOf(emotional_threads[t].thread_id)
    IN /\ Len(msgs) = 5
       /\ msgs[5].emotions \in {"frustrated", "urgent"}

\* The weaker lifecycle the threads do follow: the scenario's emotion in the
\* first two messages, escalation in the next three, calm in all later ones.
C24_LifecycleByIndex ==
  \A t \in DOMAIN emotional_threads :
    LET msgs == EmotionalMessagesOf(emotional_threads[t].thread_id)
        emotion == emotional_scenarios[ScenarioOf(emotional_threads[t])].emotion
    IN \A k \in 1..Len(msgs) :
         msgs[k].emotions = (IF k <= 2 THEN emotion
                             ELSE IF k <= 5
                                  THEN (IF emotion # "frustrated" THEN "frustrated" ELSE "urgent")
                                  ELSE "calm")

(***************************************************************************)
(* Properties of the base entries of the documents.                        *)
(***************************************************************************)
\* The number of entries _generate_document_permissions writes as
\* Finance-only before the entries by visibility: the size of its sample.
ReservedCount ==
  LET docs == RegisteredDocuments
      finance_docs == SelectSeq(docs, LAMBDA doc : doc.team = "Finance")
      high_conf_docs == SelectSeq(docs, LAMBDA doc : doc.confidentiality = "high")
  IN IF Len(finance_docs) >= 10 THEN 10
     ELSE Min2(10, Len(finance_docs) + Len(high_conf_docs))

\* The documents reserved as Finance-only, by id.
ReservedDocIds == {acls[k].resource_id : k \in 1..ReservedCount}

\* The entries written for the documents that are not reserved.
BaseAcls == SubSeq(acls, ReservedCount + 1, Len(acls))

\* The base entry of a document, for a given set of managers.
IsBaseAcl(acl, doc, manager_ids) ==
  /\ acl.resource_type = "DOC"
  /\ acl.deny_person_ids = <<>>
  /\ doc.visibility = "public" =>
       acl.allow_teams = config.teams /\ acl.allow_person_ids = <<>>
  /\ doc.visibility = "internal" =>
       acl.allow_teams = <<doc.team>> /\ Range(acl.allow_person_ids) = manager_ids
  /\ doc.visibility = "restricted" =>
       acl.allow_teams = <<doc.team>> /\ acl.allow_person_ids = <<>>

\* Every document that is not reserved has one base entry, for the managers.
BaseAclsFor(manager_ids) ==
  \A d \in DOMAIN RegisteredDocuments :
    LET doc == RegisteredDocuments[d]
    IN doc.doc_id \notin ReservedDocIds =>
         /\ \E k \in DOMAIN BaseAcls : BaseAcls[k].resource_id = doc.doc_id
         /\ \A k \in DOMAIN BaseAcls :
              BaseAcls[k].resource_id = doc.doc_id =>
                IsBaseAcl(BaseAcls[k], doc, manager_ids)

\* C25: every document that is not reserved as Finance-only gets a base
\* entry by its visibility: public allows all configured teams, internal
\* allows the document's team and every manager of the organization as
\* allowed persons, restricted allows the document's team and no person.
C25_BaseAclByVisibility ==
  pc = "thread_permissions" => BaseAclsFor(SelectedManagerIds)

\* The document entries are written, and an internal document that is not
\* reserved allows other people than the managers of the organization.
C25_WitnessInternalDocument ==
  /\ pc = "thread_permissions"
  /\ \E k \in DOMAIN BaseAcls, d \in DOMAIN RegisteredDocuments :
       /\ RegisteredDocuments[d].doc_id = BaseAcls[k].resource_id
       /\ RegisteredDocuments[d].visibility = "internal"
       /\ Range(BaseAcls[k].allow_person_ids) # SelectedManagerIds

\* The entries by visibility as they are written: an internal document
\* allows the people the registry tracks as managers by their role title.
C25_BaseAclByRegistryManagers ==
  pc = "thread_permissions" => BaseAclsFor(Range(ctx_managers))

(***************************************************************************)
(* Properties of the team history.                                         *)
(***************************************************************************)
\* The previous teams of a person are none, or one configured team that is
\* not the person's team, given to a person of 12 months of tenure or more.
HistoryWellFormed(person) ==
  \/ person.previous_teams = <<>>
  \/ /\ Len(person.previous_teams) = 1
     /\ person.previous_teams[1] \in Range(config.teams)
     /\ person.previous_teams[1] # person.team
     /\ person.tenure_months >= 12

\* C26: after the team-history pass every person's previous_teams is empty
\* or a single configured team other than the person's current team, and
\* only people of tenure 12 or more have an entry, for every team list, a
\* single configured team included.
C26_TeamHistoryWellFormed ==
  pc \in {"register_people", "org_done"} =>
    \A i \in DOMAIN people : HistoryWellFormed(people[i])

\* The pass is over under a single configured team, and a person of that
\* team was given a previous team.
C26_WitnessSingleTeam ==
  /\ pc = "register_people"
  /\ Len(config.teams) = 1
  /\ \E i \in DOMAIN people :
       /\ people[i].team = config.teams[1]
       /\ people[i].previous_teams # <<>>

\* The history under two configured teams or more.
C26_WellFormedWithOtherTeams ==
  (pc \in {"register_people", "org_done"} /\ Len(config.teams) >= 2) =>
    \A i \in DOMAIN people : HistoryWellFormed(people[i])

(***************************************************************************)
(* Properties of the registry.                                             *)
(***************************************************************************)
\* The number of times x occurs in the list.
Occurrences(list, x) == Cardinality({k \in DOMAIN list : list[k] = x})

\* The indexes agree with the entity maps and hold no duplicate.
IndexesAgree ==
  /\ \A id \in DOMAIN ctx_people :
       /\ \A t \in TeamNames :
            Occurrences(people_by_team[t], id) = (IF t = ctx_people[id].team THEN 1 ELSE 0)
       /\ Occurrences(ctx_managers, id) <= 1
  /\ \A tag \in DOMAIN document_tags :
       \A id \in document_tags[tag] :
         id \in DOMAIN ctx_documents /\ tag \in Range(ctx_documents[id].tags)
  /\ \A id \in DOMAIN ctx_documents :
       \A tag \in Range(ctx_documents[id].tags) :
         tag \in DOMAIN document_tags /\ id \in document_tags[tag]

\* C27: after any sequence of register calls the indexes agree with the
\* entity maps and hold no duplicates: a registered person id occurs once in
\* the team index, under the person's team, and at most once in the manager
\* set, and a document id is listed under a tag exactly when the registered
\* document carries the tag; registering an entity that is registered
\* already leaves the indexes as they were.
C27_IndexesAgreeWithMaps ==
  /\ [](pc = "registry" => IndexesAgree)
  /\ [][(/\ xref_call'.op = "register"
         /\ ctx_people' = ctx_people
         /\ ctx_documents' = ctx_documents
         /\ ctx_topics' = ctx_topics)
          => /\ people_by_team' = people_by_team
             /\ ctx_managers' = ctx_managers
             /\ document_tags' = document_tags]_vars

\* A person was registered a second time and is listed twice under the team.
C27_WitnessRegisteredTwice ==
  /\ pc = "registry"
  /\ xref_call.op = "register"
  /\ \E id \in DOMAIN ctx_people :
       Occurrences(people_by_team[ctx_people[id].team], id) = 2

\* The indexes agree with the maps in a run of the builders, where every
\* entity is registered once.
C27_IndexesAgreeInOneRun == IndexesAgree

\* C28: get_related_documents reads the registry and writes nothing: the
\* tag index, the topic index and the entity maps are after the call what
\* they were before it.
C28_LookupIsReadOnly ==
  [][xref_call'.op = "get_related_documents"
       => /\ document_tags' = document_tags
          /\ ctx_documents' = ctx_documents
          /\ ctx_topics' = ctx_topics
          /\ ctx_people' = ctx_people
          /\ ctx_threads' = ctx_threads
          /\ people_by_team' = people_by_team
          /\ ctx_managers' = ctx_managers]_vars

\* The documents of a tag that is also the name of a registered topic were
\* asked for, and one was returned.
C28_Witness ==
  /\ xref_call.op = "get_related_documents"
  /\ xref_call.entity_id \in DOMAIN document_tags
  /\ FindTopicByName(xref_call.entity_id) # {}
  /\ xref_call.returned # {}

(***************************************************************************)
(* Properties of the starter-pack references.                              *)
(***************************************************************************)
\* A starter pack of the team was generated under the id.
ResolvesToPack(pack_id, team) ==
  \E p \in DOMAIN starter_packs :
    starter_packs[p].pack_id = pack_id /\ starter_packs[p].team = team

\* C29: every starter-pack reference resolves: the resource_id of each PACK
\* entry of the Permission Builder and of each PACK user event is the
\* pack_id of a starter pack generated for that team.
C29_PackReferencesResolve ==
  /\ \A k \in DOMAIN acls :
       acls[k].resource_type = "PACK" =>
         ResolvesToPack(acls[k].resource_id, acls[k].allow_teams[1])
  /\ \A k \in DOMAIN user_events :
       user_events[k].resource_type = "PACK" =>
         ResolvesToPack(user_events[k].resource_id,
                        ctx_people[user_events[k].person_id].team)

\* The entries of the starter packs are written, and the entry of the second
\* team names a pack that was not generated.
C29_WitnessUnresolvedPack ==
  /\ pc = "edge_case_permissions"
  /\ Len(starter_packs) >= 2
  /\ \E k \in DOMAIN acls :
       /\ acls[k].resource_type = "PACK"
       /\ acls[k].allow_teams[1] = config.teams[2]
       /\ \A p \in DOMAIN starter_packs : starter_packs[p].pack_id # acls[k].resource_id

\* The references to the pack of the first configured team resolve.
C29_FirstTeamResolves ==
  /\ \A k \in DOMAIN acls :
       (acls[k].resource_type = "PACK" /\ acls[k].allow_teams[1] = config.teams[1]) =>
         ResolvesToPack(acls[k].resource_id, acls[k].allow_teams[1])
  /\ \A k \in DOMAIN user_events :
       (/\ user_events[k].resource_type = "PACK"
        /\ ctx_people[user_events[k].person_id].team = config.teams[1]) =>
         ResolvesToPack(user_events[k].resource_id, config.teams[1])

(***************************************************************************)
(* Properties of the covenant PathwayMonitor.                              *)
(***************************************************************************)
\* The results saved for the path.
ResultsFor(path) == {k \in DOMAIN pathway_results : pathway_results[k].path = path}

\* The alerts yielded for the path.
AlertsFor(path) == {k \in DOMAIN yielded : yielded[k] = path}

\* C30: every file of the watch directory is processed at most once over
\* the polling rounds, whatever its status: once process_file has produced a
\* result for a path, PASS or BREACH, a later call for the path returns None
\* and no further alert is yielded for it.
C30_ProcessedAtMostOnce ==
  /\ [](\A f \in PathwayFiles :
          Cardinality(ResultsFor(f.name)) <= 1 /\ Cardinality(AlertsFor(f.name)) <= 1)
  /\ [][\A f \in PathwayFiles :
          (monitor_call'.path = f.name /\ pending' # pending /\ ResultsFor(f.name) # {})
            => /\ monitor_call'.returned = "None"
               /\ yielded' = yielded]_vars

\* A file in breach was gone through in a second round and alerted again.
C30_WitnessBreachTwice ==
  /\ poll_round >= 2
  /\ monitor_call.returned = "BREACH"
  /\ Cardinality(AlertsFor(monitor_call.path)) = 2

\* A file within the terms is processed once: later calls return None.
C30_PassingFileOnce ==
  \A f \in PathwayFiles :
    check_compliance(f.financials, covenant_terms).status = "PASS" =>
      Cardinality(ResultsFor(f.name)) <= 1

====
